---- MODULE Spec2Model ----
(***************************************************************************)
(* Label generator (src/pages/label.py): the session state, the label      *)
(* renderer create_label_from_data with its text composer, barcode and     *)
(* logo layers, and the batch generator generate_png_labels; and the       *)
(* order summary of the settlement analyzer (src/app.py).                  *)
(*                                                                         *)
(* Text is a sequence of one-character strings, so that formatting,        *)
(* abbreviation (str.replace), splitting and truncation are computed as    *)
(* the code computes them.  Lengths are pixels of the 4x working canvas.   *)
(***************************************************************************)
EXTENDS Integers, Sequences, FiniteSets, TLC

VARIABLES
    uploaded_data,      \* st.session_state.uploaded_data: None or a sequence of rows
    label_config,       \* st.session_state.label_config
    generated_labels,   \* st.session_state.generated_labels (history)
    BARCODE_AVAILABLE,  \* module flag set by the import at label.py:9-14
    font_kind,          \* what load_high_quality_font finds on this machine
    glyph,              \* advance width of a character class, in 1/16 em
    preview,            \* what preview_design_page last showed
    batch,              \* what generate_labels_page last produced
    notice,             \* the st.warning / st.error / st.success each page last showed
    uploaded_file,      \* app.py: the settlement file in the uploader, None or a table
    settlement_data,    \* app.py: st.session_state.settlement_data
    order_summary       \* app.py: st.session_state.order_summary

\* the state of the settlement analyzer, which the label pages never touch
app_vars == <<uploaded_file, settlement_data, order_summary>>

vars == <<uploaded_data, label_config, generated_labels, BARCODE_AVAILABLE,
          font_kind, glyph, preview, batch, notice, app_vars>>

(***************************************************************************)
(* Bounds of the model.                                                    *)
(***************************************************************************)
MaxRows == 3
MaxHistory == 1

(***************************************************************************)
(* Strings.                                                                *)
(***************************************************************************)
None == [t |-> "None"]

NaN == [t |-> "nan", s |-> <<>>, n |-> 0]

StrVal(s) == [t |-> "str", s |-> s, n |-> 0]

IntVal(n) == [t |-> "int", s |-> <<>>, n |-> n]

\* pd.notna(value)
notna(v) == v.t # "nan"

Digits == <<"0", "1", "2", "3", "4", "5", "6", "7", "8", "9">>

RECURSIVE NatToStr(_)
NatToStr(n) ==
    IF n < 10 THEN <<Digits[n + 1]>>
    ELSE NatToStr(n \div 10) \o <<Digits[(n % 10) + 1]>>

\* str(value) for the values a cell can hold
str(v) ==
    IF v.t = "str" THEN v.s
    ELSE IF v.n < 0 THEN <<"-">> \o NatToStr(-v.n) ELSE NatToStr(v.n)

\* f"{n:04d}"
Format04d(n) ==
    LET d == NatToStr(n)
    IN  IF Len(d) >= 4 THEN d
        ELSE [i \in 1..(4 - Len(d)) |-> "0"] \o d

Upper ==
    <<"A", "B", "C", "D", "E", "F", "G", "H", "I", "J", "K", "L", "M", "N",
      "O", "P", "Q", "R", "S", "T", "U", "V", "W", "X", "Y", "Z">>

Lower ==
    <<"a", "b", "c", "d", "e", "f", "g", "h", "i", "j", "k", "l", "m", "n",
      "o", "p", "q", "r", "s", "t", "u", "v", "w", "x", "y", "z">>

IndexOf(s, c) == CHOOSE i \in 1..Len(s) : s[i] = c

\* ord(c), for the characters of the model (the one non-ASCII character is U+00E9)
ord(c) ==
    IF \E i \in 1..Len(Digits) : Digits[i] = c THEN 47 + IndexOf(Digits, c)
    ELSE IF \E i \in 1..Len(Upper) : Upper[i] = c THEN 64 + IndexOf(Upper, c)
    ELSE IF \E i \in 1..Len(Lower) : Lower[i] = c THEN 96 + IndexOf(Lower, c)
    ELSE IF c = " " THEN 32
    ELSE IF c = "," THEN 44
    ELSE IF c = "-" THEN 45
    ELSE IF c = "." THEN 46
    ELSE IF c = ":" THEN 58
    ELSE IF c = "_" THEN 95
    ELSE IF c = "|" THEN 124
    ELSE 233

\* the characters the Code 128 encoder accepts: 7-bit ASCII
IsAscii(c) == ord(c) < 128

StartsWith(s, p) == Len(s) >= Len(p) /\ SubSeq(s, 1, Len(p)) = p

EndsWith(s, p) ==
    Len(s) >= Len(p) /\ SubSeq(s, Len(s) - Len(p) + 1, Len(s)) = p

Contains(s, c) == \E i \in 1..Len(s) : s[i] = c

\* s.replace(old, new): leftmost, non-overlapping occurrences
RECURSIVE replace(_, _, _)
replace(s, old, new) ==
    IF Len(s) < Len(old) THEN s
    ELSE IF StartsWith(s, old)
         THEN new \o replace(SubSeq(s, Len(old) + 1, Len(s)), old, new)
         ELSE <<Head(s)>> \o replace(Tail(s), old, new)

\* s[:n] of Python, for any integer n
Slice(s, n) ==
    IF n >= 0 THEN SubSeq(s, 1, IF n < Len(s) THEN n ELSE Len(s))
    ELSE SubSeq(s, 1, IF Len(s) + n > 0 THEN Len(s) + n ELSE 0)

\* s.split(c)[0]
SplitFirst(s, c) ==
    IF Contains(s, c)
    THEN SubSeq(s, 1, (CHOOSE i \in 1..Len(s) :
                          s[i] = c /\ \A j \in 1..(i - 1) : s[j] # c) - 1)
    ELSE s

\* s.split(c, 1)[1], for s containing c
SplitRest(s, c) ==
    LET i == CHOOSE k \in 1..Len(s) : s[k] = c /\ \A j \in 1..(k - 1) : s[j] # c
    IN  SubSeq(s, i + 1, Len(s))

\* s.strip() for the one whitespace character of the model
RECURSIVE lstrip(_)
lstrip(s) == IF s # <<>> /\ Head(s) = " " THEN lstrip(Tail(s)) ELSE s

RECURSIVE rstrip(_)
rstrip(s) ==
    IF s # <<>> /\ s[Len(s)] = " " THEN rstrip(SubSeq(s, 1, Len(s) - 1)) ELSE s

strip(s) == rstrip(lstrip(s))

RECURSIVE join(_, _)
join(sep, parts) ==
    IF parts = <<>> THEN <<>>
    ELSE IF Len(parts) = 1 THEN parts[1]
    ELSE parts[1] \o sep \o join(sep, Tail(parts))

Range(f) == {f[i] : i \in DOMAIN f}

RECURSIVE SeqSum(_)
SeqSum(s) == IF s = <<>> THEN 0 ELSE Head(s) + SeqSum(Tail(s))

SeqMax(s) == CHOOSE m \in Range(s) : \A x \in Range(s) : x <= m

Min(a, b) == IF a <= b THEN a ELSE b

Max(a, b) == IF a >= b THEN a ELSE b

\* dict.get(key, default)
Get(d, k, default) == IF k \in DOMAIN d THEN d[k] ELSE default

Colon == <<":", " ">>

Ellipsis == <<".", ".", ".">>

(***************************************************************************)
(* Fonts and text measurement.                                             *)
(***************************************************************************)
\* load_high_quality_font(size): a scalable font when one of the named files
\* loads, else the built-in bitmap font, else None
load_high_quality_font(size) ==
    IF font_kind = "truetype" THEN [t |-> "truetype", size |-> size]
    ELSE IF font_kind = "default" THEN [t |-> "default", size |-> size]
    ELSE None

NarrowChars == {" ", ",", ".", ":", "|", "i", "l", "1", "_"}

CharClass(c) == IF c \in NarrowChars THEN "narrow" ELSE "wide"

\* advance of one character: scalable fonts scale with the size, the
\* built-in bitmap font has one fixed cell
CharWidth(c, font) ==
    IF font.t = "truetype" THEN (font.size * glyph[CharClass(c)]) \div 16
    ELSE 6

RECURSIVE textlength(_, _)
textlength(text, font) ==
    IF text = <<>> THEN 0
    ELSE CharWidth(Head(text), font) + textlength(Tail(text), font)

(***************************************************************************)
(* create_label_from_data: canvas and reserved space.                      *)
(***************************************************************************)
scale_factor == 4

\* the 40 * scale_factor side margin of text and barcode (label.py:1135, 1241)
side_margin == 40 * scale_factor

\* label.py:1071-1076
available_height(config, high_height) ==
    LET barcode_height == config.barcode_settings.height * scale_factor
        barcode_text_space ==
            IF Get(config.barcode_settings, "show_text", FALSE)
            THEN 20 * scale_factor ELSE 0
        bottom_margin == 20 * scale_factor
        reserved_bottom_space ==
            barcode_height + barcode_text_space + bottom_margin
                + (20 * scale_factor)
    IN  high_height - reserved_bottom_space

(***************************************************************************)
(* create_label_from_data: grouping the fields into lines.                 *)
(***************************************************************************)
\* a field whose Bold style is drawn one point larger
FieldItem_bold_larger(var, row, config) ==
    LET settings == Get(config.variable_settings, var, <<>>)
        font_size == (Get(settings, "font_size", 12)
                         + (IF Get(settings, "style", "Normal") = "Bold"
                            THEN 1 ELSE 0)) * scale_factor
        value == str(row[var])
    IN  [text |-> var \o Colon \o value,
         font |-> load_high_quality_font(font_size),
         font_size |-> font_size,
         var_name |-> var,
         value |-> value]

\* the dictionary appended to current_line (label.py:1085-1109)
FieldItem(var, row, config) ==
    LET settings == Get(config.variable_settings, var, <<>>)
        font_size == Get(settings, "font_size", 12) * scale_factor
        value == str(row[var])
    IN  [text |-> var \o Colon \o value,
         font |-> load_high_quality_font(font_size),
         font_size |-> font_size,
         var_name |-> var,
         value |-> value]

\* settings.get('new_line', True) (label.py:1087)
new_line_of(var, config) ==
    Get(Get(config.variable_settings, var, <<>>), "new_line", TRUE)

\* the condition without the null check: a null cell is rendered as text
IsTextField_null_rendered(var, row, config) ==
    /\ var \in Range(config.selected_variables)
    /\ var # config.barcode_variable
    /\ var \in DOMAIN row

\* the condition without the barcode exclusion: the barcode variable is text too
IsTextField_barcode_as_text(var, row, config) ==
    /\ var \in Range(config.selected_variables)
    /\ var \in DOMAIN row
    /\ notna(row[var])

\* the condition under which a variable is rendered as text (label.py:1083-1084)
IsTextField(var, row, config) ==
    /\ var \in Range(config.selected_variables)
    /\ var # config.barcode_variable
    /\ var \in DOMAIN row
    /\ notna(row[var])

\* the loop with the second close (label.py:1112-1114) left out: a new-line
\* variable stays open for the variables that follow it
RECURSIVE GroupLoop_left_open(_, _, _, _, _)
GroupLoop_left_open(order, row, config, text_lines, current_line) ==
    IF order = <<>>
    THEN IF current_line # <<>> THEN Append(text_lines, current_line)
         ELSE text_lines
    ELSE
        LET var == Head(order)
            item == FieldItem(var, row, config)
            flush == new_line_of(var, config) /\ current_line # <<>>
        IN  IF ~IsTextField(var, row, config) \/ item.font = None
            THEN GroupLoop_left_open(Tail(order), row, config, text_lines,
                                     current_line)
            ELSE GroupLoop_left_open(
                     Tail(order), row, config,
                     IF flush THEN Append(text_lines, current_line)
                     ELSE text_lines,
                     Append(IF flush THEN <<>> ELSE current_line, item))

\* the loop of label.py:1082-1118 over the rest of variable_order, with the
\* lines closed so far and the line being built
RECURSIVE GroupLoop(_, _, _, _, _)
GroupLoop(order, row, config, text_lines, current_line) ==
    IF order = <<>>
    THEN IF current_line # <<>> THEN Append(text_lines, current_line)
         ELSE text_lines
    ELSE
        LET var == Head(order)
            item == FieldItem(var, row, config)
            new_line == new_line_of(var, config)
            flush == new_line /\ current_line # <<>>
            lines1 == IF flush THEN Append(text_lines, current_line)
                      ELSE text_lines
            line1 == Append(IF flush THEN <<>> ELSE current_line, item)
        IN  IF ~IsTextField(var, row, config) \/ item.font = None
            THEN GroupLoop(Tail(order), row, config, text_lines, current_line)
            ELSE IF new_line
                 THEN GroupLoop(Tail(order), row, config,
                                Append(lines1, line1), <<>>)
                 ELSE GroupLoop(Tail(order), row, config, lines1, line1)

\* text_lines after label.py:1078-1118
group_lines(row, config) ==
    GroupLoop(config.variable_order, row, config, <<>>, <<>>)

(***************************************************************************)
(* create_label_from_data: fitting each line to the width.                 *)
(***************************************************************************)
\* label.py:1139 and 1160
short_var(var_name) ==
    replace(replace(replace(var_name, <<"_">>, <<" ">>),
                    <<"M", "a", "n", "u", "f", "a", "c", "t", "u", "r", "e", "r">>,
                    <<"M", "f", "g">>),
            <<"P", "r", "o", "d", "u", "c", "t">>,
            <<"P", "r", "o", "d">>)

\* int(max_width / avg_char_width) - 3 with avg_char_width = text_width / len(text)
\* (label.py:1144-1145)
max_chars_of(text, text_width, max_width) ==
    ((max_width * Len(text)) \div text_width) - 3

\* the hard truncation of label.py:1144-1151
truncate_single(item, short, text, text_width, max_width) ==
    LET max_chars == max_chars_of(text, text_width, max_width)
        first == short \o Colon \o SplitFirst(item.value, ",") \o Ellipsis
    IN  IF Len(text) > max_chars
        THEN IF Contains(item.value, ",") /\ Len(first) <= max_chars
             THEN first
             ELSE Slice(text, max_chars) \o Ellipsis
        ELSE text

\* the fit without the second measurement: the abbreviated text is drawn
\* whatever its width
fit_single_abbreviated_only(item, high_width) ==
    IF textlength(item.text, item.font) > high_width - side_margin
    THEN short_var(item.var_name) \o Colon \o item.value
    ELSE item.text

\* the text drawn for a single-item line (label.py:1127-1153)
fit_single(item, high_width) ==
    LET max_width == high_width - side_margin
        short == short_var(item.var_name)
        text2 == short \o Colon \o item.value
        width2 == textlength(text2, item.font)
    IN  IF textlength(item.text, item.font) > max_width
        THEN IF width2 > max_width
             THEN truncate_single(item, short, text2, width2, max_width)
             ELSE text2
        ELSE item.text

\* one truncated item of an overflowing multi-item line (label.py:1180-1187)
truncate_item(compact_text) ==
    IF Contains(compact_text, ":")
    THEN LET var_part == SplitFirst(compact_text, ":")
             val_part == strip(SplitRest(compact_text, ":"))
         IN  var_part \o Colon \o
                 (IF Len(val_part) > 8
                  THEN SubSeq(val_part, 1, 8) \o Ellipsis ELSE val_part)
    ELSE compact_text

separator == <<" ", " ", "|", " ", " ">>

\* the text drawn for a multi-item line (label.py:1155-1189)
fit_multi(line, max_font, high_width) ==
    LET compact == [i \in DOMAIN line |->
                       short_var(line[i].var_name) \o Colon \o line[i].value]
        combined_text == join(separator, compact)
        max_width == high_width - side_margin
    IN  IF textlength(combined_text, max_font) > max_width
        THEN join(separator, [i \in DOMAIN compact |-> truncate_item(compact[i])])
        ELSE combined_text

\* the processed line of one text line: nothing when the line's font fails
ProcessLine(line, high_width) ==
    IF Len(line) = 1
    THEN <<[text |-> fit_single(line[1], high_width),
            font |-> line[1].font,
            font_size |-> line[1].font_size]>>
    ELSE LET max_font_size == SeqMax([i \in DOMAIN line |-> line[i].font_size])
             max_font == load_high_quality_font(max_font_size)
         IN  IF max_font # None
             THEN <<[text |-> fit_multi(line, max_font, high_width),
                     font |-> max_font,
                     font_size |-> max_font_size]>>
             ELSE <<>>

\* processed_lines (label.py:1121-1191)
RECURSIVE process_lines(_, _)
process_lines(text_lines, high_width) ==
    IF text_lines = <<>> THEN <<>>
    ELSE (IF Head(text_lines) = <<>> THEN <<>>
          ELSE ProcessLine(Head(text_lines), high_width))
         \o process_lines(Tail(text_lines), high_width)

(***************************************************************************)
(* create_label_from_data: stacking the lines.                             *)
(***************************************************************************)
line_gap == 8 * scale_factor

\* label.py:1194
total_height_of(processed_lines) ==
    SeqSum([i \in DOMAIN processed_lines |->
               processed_lines[i].font_size + line_gap])

\* label.py:1195
start_y_of(available, total_height) ==
    ((available - total_height) \div 2) + (30 * scale_factor)

\* the draw.text calls of label.py:1198-1209: text, position and size of each line
draw_lines(processed_lines, start_y, high_width) ==
    [i \in DOMAIN processed_lines |->
        [text |-> processed_lines[i].text,
         font_size |-> processed_lines[i].font_size,
         x |-> (high_width
                  - textlength(processed_lines[i].text, processed_lines[i].font))
               \div 2,
         y |-> start_y
               + total_height_of(SubSeq(processed_lines, 1, i - 1))]]

(***************************************************************************)
(* Barcode layer.                                                          *)
(***************************************************************************)
\* barcode.get('code128', ...).render(...): the encoder rejects characters
\* outside its character set with an exception
code128_encodes(barcode_str) ==
    \A i \in 1..Len(barcode_str) : IsAscii(barcode_str[i])

\* a bar whose presence depends on its character alone
visual_bar_by_character(i, x, y, bar_width, height, data_str) ==
    LET char_idx == i % Len(data_str)
        char_code == ord(data_str[char_idx + 1])
        bar_height == IF char_code % 4 = 0 THEN height - 12
                      ELSE IF char_code % 3 = 0 THEN height - 18
                      ELSE height - 9
        x_pos == x + 15 + (i * bar_width)
    IN  [i |-> i,
         drawn |-> char_code % 3 # 0,
         x0 |-> x_pos, y0 |-> y + 6,
         x1 |-> x_pos + bar_width - 1, y1 |-> y + 6 + bar_height]

\* the bar of index i (label.py:1306-1321); drawn says whether it is painted
visual_bar(i, x, y, bar_width, height, data_str) ==
    LET char_idx == i % Len(data_str)
        char_code == ord(data_str[char_idx + 1])
        bar_height == IF char_code % 4 = 0 THEN height - 12
                      ELSE IF char_code % 3 = 0 THEN height - 18
                      ELSE height - 9
        x_pos == x + 15 + (i * bar_width)
    IN  [i |-> i,
         drawn |-> (char_code + i) % 3 # 0,
         x0 |-> x_pos, y0 |-> y + 6,
         x1 |-> x_pos + bar_width - 1, y1 |-> y + 6 + bar_height]

\* the fallback with bars as wide as the box divided by their number,
\* without the padding of 15 on either side
draw_visual_barcode_scaled_unpadded(x, y, width, height, data_str) ==
    LET bar_count == Min(Len(data_str) * 4, 60)
    IN  IF bar_count = 0 THEN [raised |-> TRUE]
        ELSE LET bar_width == Max(3, width \div bar_count)
             IN  [raised |-> FALSE,
                  kind |-> "visual",
                  bars |-> SelectSeq(
                      [k \in 1..bar_count |->
                          visual_bar(k - 1, x, y, bar_width, height, data_str)],
                      LAMBDA b : b.drawn)]

\* the fallback with a pattern that shifts with the session's history: the
\* bars depend on more than the value and the box
draw_visual_barcode_scaled_seeded(x, y, width, height, data_str) ==
    LET bar_count == Min(Len(data_str) * 4, 60)
    IN  IF bar_count = 0 THEN [raised |-> TRUE]
        ELSE LET bar_width == Max(3, (width - 30) \div bar_count)
             IN  [raised |-> FALSE,
                  kind |-> "visual",
                  bars |-> SelectSeq(
                      [k \in 1..bar_count |->
                          visual_bar(k - 1 + Len(generated_labels), x, y,
                                     bar_width, height, data_str)],
                      LAMBDA b : b.drawn)]

\* draw_visual_barcode_scaled: the division by bar_count raises
\* ZeroDivisionError for an empty string
draw_visual_barcode_scaled(x, y, width, height, data_str) ==
    LET bar_count == Min(Len(data_str) * 4, 60)
    IN  IF bar_count = 0 THEN [raised |-> TRUE]
        ELSE LET bar_width == Max(3, (width - 30) \div bar_count)
             IN  [raised |-> FALSE,
                  kind |-> "visual",
                  bars |-> SelectSeq(
                      [k \in 1..bar_count |->
                          visual_bar(k - 1, x, y, bar_width, height, data_str)],
                      LAMBDA b : b.drawn)]

\* text_height of label.py:1233-1237
caption_height(barcode_settings) ==
    IF Get(barcode_settings, "show_text", FALSE)
    THEN Get(barcode_settings, "font_size", 10) * scale_factor
             + (8 * scale_factor)
    ELSE 0

\* barcode_y of label.py:1240
barcode_y_of(barcode_settings, height) ==
    height - (Get(barcode_settings, "height", 40) * scale_factor)
           - caption_height(barcode_settings)
           - (20 * scale_factor) - (10 * scale_factor)

\* barcode_width of label.py:1241
barcode_width_of(width) == width - side_margin

\* barcode_x of label.py:1270, 1277, 1281
barcode_x_of(width) == (width - barcode_width_of(width)) \div 2

\* the box of label.py:1243-1282: the encoded image, or the visual fallback
\* when the library is missing or the encoder throws
barcode_box(barcode_str, x, y, width, height) ==
    IF BARCODE_AVAILABLE /\ code128_encodes(barcode_str)
    THEN [raised |-> FALSE, kind |-> "code128", bars |-> <<>>]
    ELSE draw_visual_barcode_scaled(x, y, width, height, barcode_str)

\* a caption drawn whatever show_text says
barcode_caption_always(barcode_str, barcode_settings, width, barcode_y, barcode_height) ==
    LET font == load_high_quality_font(
                    Get(barcode_settings, "font_size", 10) * scale_factor)
    IN  IF font # None
        THEN [text |-> barcode_str,
              font_size |-> font.size,
              x |-> (width - textlength(barcode_str, font)) \div 2,
              y |-> barcode_y + barcode_height + (8 * scale_factor)]
        ELSE None

\* the caption of label.py:1285-1293
barcode_caption(barcode_str, barcode_settings, width, barcode_y, barcode_height) ==
    LET font == load_high_quality_font(
                    Get(barcode_settings, "font_size", 10) * scale_factor)
    IN  IF Get(barcode_settings, "show_text", FALSE) /\ font # None
        THEN [text |-> barcode_str,
              font_size |-> font.size,
              x |-> (width - textlength(barcode_str, font)) \div 2,
              y |-> barcode_y + barcode_height + (8 * scale_factor)]
        ELSE None

\* add_high_quality_barcode(img, draw, barcode_data, width, height, config, 4)
add_high_quality_barcode(barcode_data, width, height, config) ==
    LET barcode_settings == config.barcode_settings
        barcode_height == Get(barcode_settings, "height", 40) * scale_factor
        barcode_str == str(barcode_data)
        y == barcode_y_of(barcode_settings, height)
        x == barcode_x_of(width)
        box == barcode_box(barcode_str, x, y, barcode_width_of(width),
                           barcode_height)
    IN  IF box.raised THEN [raised |-> TRUE]
        ELSE [raised |-> FALSE,
              kind |-> box.kind,
              x |-> x, y |-> y,
              width |-> barcode_width_of(width),
              height |-> barcode_height,
              bars |-> box.bars,
              caption |-> barcode_caption(barcode_str, barcode_settings, width,
                                          y, barcode_height)]

(***************************************************************************)
(* Logo layer.                                                             *)
(***************************************************************************)
\* top-left corner of the logo (label.py:1357-1378)
logo_xy(position, width, height, logo_width, logo_height, margin) ==
    LET left == margin
        center == (width - logo_width) \div 2
        right == width - logo_width - margin
        top == margin
        bottom == height - logo_height - margin
    IN  IF position = "top-left" THEN <<left, top>>
        ELSE IF position = "top-center" THEN <<center, top>>
        ELSE IF position = "top-right" THEN <<right, top>>
        ELSE IF position = "bottom-left" THEN <<left, bottom>>
        ELSE IF position = "bottom-center" THEN <<center, bottom>>
        ELSE IF position = "bottom-right" THEN <<right, bottom>>
        ELSE <<right, top>>

\* the (logo_size, width, height) among the logos of the model for which the
\* double logo_size / (width / height) is just below its exact, integer value:
\* 80 / (40 / 29) = 57.99999999999999, 600 / (40 / 29) = 434.99999999999994
DoubleBelowInteger == {<<80, 40, 29>>, <<600, 40, 29>>}

\* int(logo_size / logo_aspect) with logo_aspect = width / height, in double
\* precision (label.py:1346, 1349)
int_div_aspect(logo_size, w, h) ==
    ((logo_size * h) \div w)
        - (IF <<logo_size, w, h>> \in DoubleBelowInteger THEN 1 ELSE 0)

\* int(logo_size * logo_aspect) (label.py:1346, 1352); exact for the logos of
\* the model
int_mul_aspect(logo_size, w, h) == (logo_size * w) \div h

\* size of the resized logo (label.py:1346-1352)
logo_resized(image, logo_size) ==
    IF image.width > image.height
    THEN <<logo_size, int_div_aspect(logo_size, image.width, image.height)>>
    ELSE <<int_mul_aspect(logo_size, image.width, image.height), logo_size>>

\* Image.open(io.BytesIO(logo_data)) raises for bytes that are no image, and
\* logo_img.resize raises ValueError for a side of 0 (label.py:1334, 1354)
logo_fails(image, size) == ~image.valid \/ size[1] = 0 \/ size[2] = 0

\* the function without its try/except: a processing failure leaves it
add_logo_to_image_unguarded(width, height, config) ==
    LET logo_settings == config.logo_settings
        image == Get(logo_settings, "image_data", None)
        logo_size == Get(logo_settings, "size", 50) * scale_factor
        margin == Get(logo_settings, "margin", 10) * scale_factor
        size == logo_resized(image, logo_size)
        xy == logo_xy(Get(logo_settings, "position", "top-right"),
                      width, height, size[1], size[2], margin)
    IN  IF ~Get(logo_settings, "enabled", FALSE) \/ image = None THEN None
        ELSE IF logo_fails(image, size) THEN [raised |-> TRUE]
        ELSE [raised |-> FALSE,
              x |-> xy[1], y |-> xy[2], width |-> size[1], height |-> size[2]]

\* add_logo_to_image: the placement of the logo, or None when it is not
\* enabled, has no image, or processing fails (the exception is swallowed)
add_logo_to_image(width, height, config) ==
    LET logo_settings == config.logo_settings
        image == Get(logo_settings, "image_data", None)
        logo_size == Get(logo_settings, "size", 50) * scale_factor
        margin == Get(logo_settings, "margin", 10) * scale_factor
        size == logo_resized(image, logo_size)
        xy == logo_xy(Get(logo_settings, "position", "top-right"),
                      width, height, size[1], size[2], margin)
    IN  IF ~Get(logo_settings, "enabled", FALSE) \/ image = None THEN None
        ELSE IF logo_fails(image, size) THEN None
        ELSE [raised |-> FALSE,
              x |-> xy[1], y |-> xy[2], width |-> size[1], height |-> size[2]]

(***************************************************************************)
(* create_label_from_data, create_empty_label, create_preview_label.       *)
(***************************************************************************)
\* img.resize((width, height), LANCZOS): the size of the image returned
resize(canvas, size) == size

\* label.py:1211-1213
barcode_layer(row_data, config, high_width, high_height) ==
    IF /\ config.barcode_variable # <<>>
       /\ config.barcode_variable \in DOMAIN row_data
       /\ notna(row_data[config.barcode_variable])
    THEN add_high_quality_barcode(row_data[config.barcode_variable],
                                  high_width, high_height, config)
    ELSE None

\* label.py:1215-1217
logo_layer(config, high_width, high_height) ==
    IF Get(Get(config, "logo_settings", <<>>), "enabled", FALSE)
    THEN add_logo_to_image(high_width, high_height, config)
    ELSE None

\* the body of create_label_from_data for a given configuration: what was
\* drawn and the image returned, or raised when an exception leaves the
\* function
label_from_data(row_data, config) ==
    LET width == config.label_dimensions.width
        height == config.label_dimensions.height
        high_width == width * scale_factor
        high_height == height * scale_factor
        available == available_height(config, high_height)
        text_lines == group_lines(row_data, config)
        processed_lines == process_lines(text_lines, high_width)
        total_height == total_height_of(processed_lines)
        start_y == start_y_of(available, total_height)
        bc == barcode_layer(row_data, config, high_width, high_height)
        lg == logo_layer(config, high_width, high_height)
    IN  IF "height" \notin DOMAIN config.barcode_settings
        THEN [raised |-> TRUE]
        ELSE IF bc # None /\ bc.raised THEN [raised |-> TRUE]
        ELSE IF lg # None /\ lg.raised THEN [raised |-> TRUE]
        ELSE [raised |-> FALSE,
              placeholder |-> FALSE,
              size |-> resize(<<high_width, high_height>>, <<width, height>>),
              canvas |-> <<high_width, high_height>>,
              available_height |-> available,
              text_lines |-> [i \in DOMAIN text_lines |->
                                 [j \in DOMAIN text_lines[i] |->
                                     text_lines[i][j].var_name]],
              total_height |-> total_height,
              start_y |-> start_y,
              lines |-> draw_lines(processed_lines, start_y, high_width),
              barcode |-> bc,
              logo |-> lg]

\* create_label_from_data(row_data), with config = st.session_state.label_config
create_label_from_data(row_data) == label_from_data(row_data, label_config)

\* the body of create_empty_label for a given configuration
empty_label(config) ==
    [raised |-> FALSE,
     placeholder |-> TRUE,
     size |-> <<config.label_dimensions.width,
                config.label_dimensions.height>>,
     caption |-> load_high_quality_font(16) # None]

\* create_empty_label (label.py:946-960)
create_empty_label == empty_label(label_config)

\* the body of create_preview_label for a given table and configuration
preview_label(df, config) ==
    IF df = None \/ Len(df.rows) = 0
    THEN empty_label(config)
    ELSE label_from_data(df.rows[1].row, config)

\* create_preview_label (label.py:848-861)
create_preview_label == preview_label(uploaded_data, label_config)

(***************************************************************************)
(* Batch generation.                                                       *)
(***************************************************************************)
\* the DataFrame read by upload_data_page (label.py:179-188): the rows carry
\* the default index labels 0, 1, ...
DataFrame(rows) ==
    [t |-> "DataFrame",
     rows |-> [i \in DOMAIN rows |-> [index |-> i - 1, row |-> rows[i]]]]

\* df.iloc[start:end]: positions are sliced, index labels are kept
iloc(df, start, end) ==
    [t |-> "DataFrame",
     rows |-> SubSeq(df.rows, start + 1, Min(end, Len(df.rows)))]

\* f"label_{index + 1:04d}.png" (label.py:1037)
label_filename(index) ==
    <<"l", "a", "b", "e", "l", "_">> \o Format04d(index + 1)
        \o <<".", "p", "n", "g">>

\* the loop without its try/except: the first row that raises ends the batch
RECURSIVE png_loop_aborting(_, _, _)
png_loop_aborting(rows, zip_file, warnings) ==
    IF rows = <<>> THEN [zip |-> zip_file, warnings |-> warnings]
    ELSE LET index == Head(rows).index
             label_img == create_label_from_data(Head(rows).row)
         IN  IF label_img.raised
             THEN [zip |-> zip_file, warnings |-> Append(warnings, index + 1)]
             ELSE png_loop_aborting(Tail(rows),
                                    Append(zip_file,
                                           [name |-> label_filename(index),
                                            size |-> label_img.size]),
                                    warnings)

\* the loop of generate_png_labels (label.py:1026-1042), with the archive and
\* the st.warning messages so far
RECURSIVE png_loop(_, _, _)
png_loop(rows, zip_file, warnings) ==
    IF rows = <<>> THEN [zip |-> zip_file, warnings |-> warnings]
    ELSE LET index == Head(rows).index
             label_img == create_label_from_data(Head(rows).row)
         IN  IF label_img.raised
             THEN png_loop(Tail(rows), zip_file, Append(warnings, index + 1))
             ELSE png_loop(Tail(rows),
                           Append(zip_file, [name |-> label_filename(index),
                                             size |-> label_img.size]),
                           warnings)

generate_png_labels(df) == png_loop(df.rows, <<>>, <<>>)

\* the count shown by st.success and stored in the history (label.py:1001, 1014)
reported_count(selected_df, result) == Len(selected_df.rows)

(***************************************************************************)
(* Pages: the handlers that render.                                        *)
(***************************************************************************)
\* the rest of the try block after st.image (label.py:771-793): df.iloc[0]
\* raises IndexError for a table without rows
first_row_shown(df) == Len(df.rows) > 0

\* what the preview page reports for an image (label.py:767-796): the
\* exception of the render or of the first-row display, caught by the page
preview_notice(image) ==
    IF image.raised \/ ~first_row_shown(uploaded_data)
    THEN "Error generating preview" ELSE "none"

\* a preview page that renders without its two checks
preview_design_page_unchecked ==
    /\ preview' = create_preview_label
    /\ notice' = [notice EXCEPT
                     !.preview =
                         IF uploaded_data = None THEN "Error generating preview"
                         ELSE preview_notice(create_preview_label)]
    /\ UNCHANGED <<uploaded_data, label_config, generated_labels,
                   BARCODE_AVAILABLE, font_kind, glyph, batch, app_vars>>

\* a preview page that stores what it resolved back into the configuration
preview_design_page_storing ==
    /\ uploaded_data # None
    /\ label_config.selected_variables # <<>>
    /\ preview' = create_preview_label
    /\ label_config' = [label_config EXCEPT !.barcode_variable = <<>>]
    /\ notice' = [notice EXCEPT !.preview = preview_notice(create_preview_label)]
    /\ UNCHANGED <<uploaded_data, generated_labels,
                   BARCODE_AVAILABLE, font_kind, glyph, batch, app_vars>>

\* preview_design_page (label.py:750-796): the live preview of the first row
preview_design_page ==
    /\ uploaded_data # None
    /\ label_config.selected_variables # <<>>
    /\ preview' = create_preview_label
    /\ notice' = [notice EXCEPT !.preview = preview_notice(create_preview_label)]
    /\ UNCHANGED <<uploaded_data, label_config, generated_labels,
                   BARCODE_AVAILABLE, font_kind, glyph, batch, app_vars>>

\* generate_labels_page (label.py:962-1019) with the "Generate PNG Labels"
\* button pressed: the range selection, the batch, the message and the history
generate_labels_page(use_all, start, end) ==
    /\ uploaded_data # None
    /\ label_config.selected_variables # <<>>
    /\ Len(generated_labels) < MaxHistory
    /\ LET df == uploaded_data
           selected_df == IF use_all THEN df ELSE iloc(df, start - 1, end)
           result == generate_png_labels(selected_df)
           count == reported_count(selected_df, result)
       IN  /\ batch' = [rows |-> [i \in DOMAIN selected_df.rows |->
                                     selected_df.rows[i].index],
                        zip |-> result.zip,
                        warnings |-> result.warnings,
                        success |-> count]
           /\ generated_labels' =
                  Append(generated_labels, [count |-> count, format |-> "PNG"])
    /\ notice' = [notice EXCEPT !.generate = "Generated"]
    /\ UNCHANGED <<uploaded_data, label_config, BARCODE_AVAILABLE, font_kind,
                   glyph, preview, app_vars>>

GenerateAll == generate_labels_page(TRUE, 1, 1)

GenerateRange ==
    \E start \in 1..Len(uploaded_data.rows),
       end \in 1..Len(uploaded_data.rows) :
        generate_labels_page(FALSE, start, end)

Next == preview_design_page \/ GenerateAll \/ GenerateRange

(***************************************************************************)
(* Inputs: column names, cell values, configurations.                      *)
(***************************************************************************)
SKU == <<"S", "K", "U">>

Code == <<"C", "o", "d", "e">>

Price == <<"P", "r", "i", "c", "e">>

Product_Name == <<"P", "r", "o", "d", "u", "c", "t", "_", "N", "a", "m", "e">>

Manufacturer == <<"M", "a", "n", "u", "f", "a", "c", "t", "u", "r", "e", "r">>

\* initialize_session_state: barcode_settings (label.py:65-69)
default_barcode_settings == [height |-> 40, show_text |-> TRUE, font_size |-> 10]

\* initialize_session_state: logo_settings (label.py:75-81)
default_logo_settings ==
    [enabled |-> FALSE, image_data |-> None, position |-> "top-right",
     size |-> 50, margin |-> 10]

\* what render_variable_config saves for a variable (label.py:428-432)
variable_setting(font_size, new_line) ==
    [font_size |-> font_size, style |-> "Normal", new_line |-> new_line]

\* a label_config as the configure page leaves it
Config(selected, order, settings, barcode_variable, barcode_settings, w, h) ==
    [selected_variables |-> selected,
     variable_settings |-> settings,
     barcode_variable |-> barcode_variable,
     barcode_settings |-> barcode_settings,
     label_dimensions |-> [width |-> w, height |-> h],
     variable_order |-> order,
     logo_settings |-> default_logo_settings]

\* all sequences over S of length lo..hi
SeqsOf(S, lo, hi) == UNION {[1..n -> S] : n \in lo..hi}

\* the label session before any render
FreshLabels ==
    /\ generated_labels = <<>>
    /\ preview = None
    /\ batch = None
    /\ notice = [page \in {"preview", "generate"} |-> "none"]

\* the session state of the settlement analyzer (app.py:16-19)
FreshApp ==
    /\ settlement_data = None
    /\ order_summary = None

\* the state of a fresh session before any render, no settlement file chosen
Fresh ==
    /\ FreshLabels
    /\ FreshApp
    /\ uploaded_file = None

(***************************************************************************)
(* Spec: batches over tables whose barcode cells are missing, empty,       *)
(* encodable or not encodable.                                             *)
(***************************************************************************)
BatchCells ==
    {NaN, StrVal(<<>>), StrVal(<<"1", "2">>), StrVal(<<"é">>)}

BatchRows == {[c \in {SKU, Code} |->
                  IF c = SKU THEN StrVal(<<"A", "1">>) ELSE cell] :
              cell \in BatchCells}

Init ==
    /\ \E rows \in SeqsOf(BatchRows, 0, MaxRows) :
          uploaded_data = DataFrame(rows)
    /\ label_config = Config(<<SKU, Code>>, <<SKU, Code>>, <<>>, Code,
                             default_barcode_settings, 400, 200)
    /\ BARCODE_AVAILABLE \in BOOLEAN
    /\ font_kind = "truetype"
    /\ glyph = [c \in {"narrow", "wide"} |-> IF c = "narrow" THEN 4 ELSE 8]
    /\ Fresh

Spec == Init /\ [][Next]_vars

(***************************************************************************)
(* Properties of the render and of the batch, under Spec.                  *)
(***************************************************************************)
ConfiguredSize ==
    <<label_config.label_dimensions.width, label_config.label_dimensions.height>>

\* the row of the uploaded table with index label ix
RowAt(ix) == uploaded_data.rows[ix + 1].row

\* the render of the row with index label ix returns an image
Renders(ix) == ~create_label_from_data(RowAt(ix)).raised

\* the row has a non-null value of the configured barcode variable
HasBarcodeValue(row) ==
    /\ label_config.barcode_variable # <<>>
    /\ label_config.barcode_variable \in DOMAIN row
    /\ notna(row[label_config.barcode_variable])

\* C1: every render of a row returns an image, and the image has exactly the
\* configured width x height.  (Fails: the render of a row whose barcode value
\* is the empty string raises, see C4.)
C1_RenderReturnsConfiguredSize ==
    preview # None => (~preview.raised /\ preview.size = ConfiguredSize)

\* C4: the barcode layer returns normally for every non-null barcode value,
\* with or without the barcode library.  (Fails: the visual fallback divides
\* by the bar count, which is zero for the empty string.)
C4_BarcodeNeverRaises ==
    (preview # None /\ Len(uploaded_data.rows) > 0
        /\ HasBarcodeValue(RowAt(0)))
    => ~add_high_quality_barcode(
            RowAt(0)[label_config.barcode_variable],
            ConfiguredSize[1] * scale_factor,
            ConfiguredSize[2] * scale_factor,
            label_config).raised

\* C5: a batch processes every row it is given: the archive holds one entry
\* per row whose render succeeded, every row whose render raised is reported
\* as skipped by its row number, in input order, and no row is left out.
C5_BatchNeverAborts ==
    batch # None =>
        /\ Len(batch.zip) = Len(SelectSeq(batch.rows, Renders))
        /\ batch.warnings =
               [k \in DOMAIN SelectSeq(batch.rows, LAMBDA ix : ~Renders(ix)) |->
                   SelectSeq(batch.rows, LAMBDA ix : ~Renders(ix))[k] + 1]
        /\ Len(batch.zip) + Len(batch.warnings) = Len(batch.rows)

\* C5 witness: a batch of three rows whose second row raised and whose third
\* row was still rendered
C5_Witness ==
    /\ batch # None
    /\ Len(batch.rows) = 3
    /\ batch.warnings = <<2>>
    /\ Len(batch.zip) = 2

\* C6: the entry of the k-th row given to the batch is named label_%04d with
\* number k, and the names of one archive are distinct.  (Fails: the number
\* is the row's index label in the uploaded table plus one, so a range that
\* starts at row 2 starts at label_0002.)
C6_NamedByPositionInBatch ==
    batch # None =>
        LET rendered == SelectSeq([k \in DOMAIN batch.rows |-> k],
                                  LAMBDA k : Renders(batch.rows[k]))
        IN  /\ [e \in DOMAIN batch.zip |-> batch.zip[e].name]
                   = [e \in DOMAIN rendered |-> label_filename(rendered[e] - 1)]
            /\ \A e, f \in DOMAIN batch.zip :
                   batch.zip[e].name = batch.zip[f].name => e = f

\* C7: the count reported after a batch, and recorded in the history, is the
\* number of entries in the archive.  (Fails: it is the number of rows
\* submitted, also when rows were skipped.)
C7_ReportedCountIsArchiveSize ==
    batch # None =>
        /\ batch.success = Len(batch.zip)
        /\ generated_labels[Len(generated_labels)].count = Len(batch.zip)

(***************************************************************************)
(* SpecLines: one row, every order of the fields, every choice of the      *)
(* new-line flags and of the cells that are null.                          *)
(***************************************************************************)
MaxFields == 3

FieldNames == <<SKU, Price, Code, Product_Name, Manufacturer>>

LineFields == {FieldNames[i] : i \in 1..MaxFields}

\* the orders of a set of fields: the sequences that list each field once
Orders(S) ==
    {o \in [1..Cardinality(S) -> S] : \A i, j \in DOMAIN o : o[i] = o[j] => i = j}

InitLines ==
    /\ \E cells \in [LineFields -> {NaN, StrVal(<<"v">>)}] :
          uploaded_data = DataFrame(<<cells>>)
    /\ \E order \in Orders(LineFields), flags \in [LineFields -> BOOLEAN] :
          label_config =
              Config(order, order,
                     [v \in LineFields |-> variable_setting(12, flags[v])],
                     <<>>, default_barcode_settings, 400, 200)
    /\ BARCODE_AVAILABLE = FALSE
    /\ font_kind = "truetype"
    /\ glyph = [c \in {"narrow", "wide"} |-> IF c = "narrow" THEN 4 ELSE 8]
    /\ Fresh

SpecLines == InitLines /\ [][Next]_vars

\* the fields rendered as text for the previewed row, in configured order
PresentFields ==
    SelectSeq(label_config.variable_order,
              LAMBDA v : IsTextField(v, RowAt(0), label_config))

RECURSIVE Flatten(_)
Flatten(lines) == IF lines = <<>> THEN <<>> ELSE Head(lines) \o Flatten(Tail(lines))

\* the line of the preview that holds the field
LineOf(var) ==
    CHOOSE i \in DOMAIN preview.text_lines : var \in Range(preview.text_lines[i])

\* a preview of a row was rendered
Previewed == preview # None /\ ~preview.raised /\ ~preview.placeholder

C3_SameLineAsPrevious ==
    Previewed =>
        \A k \in 2..Len(PresentFields) :
            ~new_line_of(PresentFields[k], label_config)
                => LineOf(PresentFields[k]) = LineOf(PresentFields[k - 1])

(***************************************************************************)
(* SpecGeom: one row with a barcode, canvas sizes and barcode settings at  *)
(* the ends and inside of their ranges, one to MaxFields text fields.      *)
(***************************************************************************)
TextFieldNames == <<SKU, Price, Product_Name, Manufacturer>>

GeomDims == {<<200, 100>>, <<400, 200>>, <<800, 600>>}

GeomBarcodeSettings ==
    {[height |-> h, show_text |-> FALSE, font_size |-> 10] : h \in {20, 40, 120}}
    \cup {[height |-> h, show_text |-> TRUE, font_size |-> f] :
              h \in {20, 40, 120}, f \in {8, 16}}

InitGeom ==
    /\ uploaded_data =
           DataFrame(<<[c \in Range(TextFieldNames) \cup {Code} |->
                           IF c = Code THEN StrVal(<<"1", "2">>)
                           ELSE StrVal(<<"v">>)]>>)
    /\ \E n \in 1..MaxFields, dim \in GeomDims, bs \in GeomBarcodeSettings :
          \E sizes \in [1..n -> {8, 24}] :
              label_config =
                  Config(SubSeq(TextFieldNames, 1, n) \o <<Code>>,
                         SubSeq(TextFieldNames, 1, n) \o <<Code>>,
                         [v \in {TextFieldNames[i] : i \in 1..n} |->
                             variable_setting(
                                 sizes[CHOOSE i \in 1..n : TextFieldNames[i] = v],
                                 TRUE)],
                         Code, bs, dim[1], dim[2])
    /\ BARCODE_AVAILABLE \in BOOLEAN
    /\ font_kind = "truetype"
    /\ glyph = [c \in {"narrow", "wide"} |-> IF c = "narrow" THEN 4 ELSE 8]
    /\ Fresh

SpecGeom == InitGeom /\ [][Next]_vars

\* a preview of a row was rendered with its barcode
PreviewedWithBarcode == Previewed /\ preview.barcode # None

\* C8: the stacked text block, from start_y to start_y + total_height, lies
\* inside the canvas and above the top edge of the barcode box.  (Fails: the
\* block is centred in available_height and pushed down by 30 * scale, with
\* no check against the space that is there.)
C8_TextAboveBarcode ==
    PreviewedWithBarcode =>
        /\ preview.start_y >= 0
        /\ preview.start_y + preview.total_height <= preview.canvas[2]
        /\ preview.start_y + preview.total_height <= preview.barcode.y

\* C9: the barcode box has equal left and right margins, its top edge is
\* inside the canvas and not above the lower bound of the text area, and its
\* bottom edge is inside the canvas.  (Fails: barcode_y is negative when the
\* canvas is lower than barcode, caption and margins together.)
C9_BarcodeInReservedRegion ==
    PreviewedWithBarcode =>
        /\ preview.barcode.x
               = preview.canvas[1] - (preview.barcode.x + preview.barcode.width)
        /\ preview.barcode.y >= 0
        /\ preview.barcode.y >= preview.available_height
        /\ preview.barcode.y + preview.barcode.height <= preview.canvas[2]

(***************************************************************************)
(* SpecText: one row with one field, names with and without abbreviation,  *)
(* values with and without commas, every assignment of character widths.   *)
(***************************************************************************)
TextValues ==
    {<<"A", "c", "m", "e">>,
     <<"W", "i", "d", "g", "e", "t", " ", "A", "l", "p", "h", "a", ",", " ",
       "B", "l", "u", "e", " ", "X", "L">>,
     <<"R", "e", "d", ",", " ", "L", "a", "r", "g", "e", " ", "s", "i", "z",
       "e", ",", " ", "c", "o", "t", "t", "o", "n", " ", "b", "l", "e", "n",
       "d">>}

GlyphWidths == {4, 8, 16}

InitText ==
    /\ \E name \in {SKU, Product_Name, Manufacturer}, value \in TextValues,
          size \in {8, 16, 24}, w \in {200, 400} :
          /\ uploaded_data = DataFrame(<<[c \in {name} |-> StrVal(value)]>>)
          /\ label_config =
                 Config(<<name>>, <<name>>,
                        [v \in {name} |-> variable_setting(size, TRUE)],
                        <<>>, default_barcode_settings, w, 200)
    /\ BARCODE_AVAILABLE = FALSE
    /\ font_kind \in {"truetype", "default"}
    /\ glyph \in [{"narrow", "wide"} -> GlyphWidths]
    /\ Fresh

SpecText == InitText /\ [][Next]_vars

\* the one field of the previewed row, its value and its font
TheField == label_config.variable_order[1]

TheValue == str(RowAt(0)[TheField])

TheFont ==
    load_high_quality_font(
        label_config.variable_settings[TheField].font_size * scale_factor)

\* "name: value" and its abbreviated form
FullText == TheField \o Colon \o TheValue

AbbreviatedText == short_var(TheField) \o Colon \o TheValue

\* canvas width minus the side margin, on the working canvas
MaxWidth == (ConfiguredSize[1] * scale_factor) - (40 * scale_factor)

Overflows(text) == textlength(text, TheFont) > MaxWidth

\* the text drawn for the single line of the preview
DrawnText == preview.lines[1].text

\* the character budget of the truncation: int(maxWidth / average width) - 3
CharBudget ==
    ((MaxWidth * Len(AbbreviatedText)) \div textlength(AbbreviatedText, TheFont))
        - 3

\* every character has the same advance
UniformWidths == TheFont.t = "default" \/ glyph["narrow"] = glyph["wide"]

\* a preview of a one-field row was rendered as one line
PreviewedOneLine == Previewed /\ Len(preview.lines) = 1

Net_g == <<"N", "e", "t", ":", "g">>

MultiNames == {SKU, Product_Name, Net_g}

MultiValues ==
    {<<"v">>,
     <<"1", "2", "3", "4", "5", "6", "7", "8">>,
     <<"W", "i", "d", "g", "e", "t", " ", "A", "l", "p", "h", "a">>,
     <<"1", "0", ":", "3", "0", ":", "0", "0", " ", "A", "M">>,
     <<" ", "a", "b">>}

InitMulti ==
    /\ \E a \in MultiNames, b \in MultiNames, va \in MultiValues,
          vb \in MultiValues, w \in {200, 800} :
          /\ a # b
          /\ uploaded_data =
                 DataFrame(<<[c \in {a, b} |->
                                 IF c = a THEN StrVal(va) ELSE StrVal(vb)]>>)
          /\ \E sizes \in {<<12, 12>>, <<8, 24>>} :
                 label_config =
                     Config(<<a, b>>, <<a, b>>,
                            [v \in {a, b} |->
                                variable_setting(
                                    IF v = a THEN sizes[1] ELSE sizes[2], FALSE)],
                            <<>>, default_barcode_settings, w, 200)
    /\ BARCODE_AVAILABLE = FALSE
    /\ font_kind = "truetype"
    /\ glyph = [c \in {"narrow", "wide"} |-> IF c = "narrow" THEN 4 ELSE 8]
    /\ Fresh

SpecMulti == InitMulti /\ [][Next]_vars

\* the fields of the one line of the preview and the font of the line
LineVars == preview.text_lines[1]

LineFont ==
    load_high_quality_font(
        SeqMax([i \in DOMAIN LineVars |->
                   label_config.variable_settings[LineVars[i]].font_size
                       * scale_factor]))

\* "short: value" of every field of the line, joined
JoinedText ==
    join(separator, [i \in DOMAIN LineVars |->
                        short_var(LineVars[i]) \o Colon
                            \o str(RowAt(0)[LineVars[i]])])

\* a value cut to at most 8 characters and an ellipsis
Cut8(value) ==
    IF Len(value) > 8 THEN SubSeq(value, 1, 8) \o Ellipsis ELSE value

\* a preview whose one line holds several fields and was too wide when joined
PreviewedOverflowingLine ==
    /\ Previewed
    /\ Len(preview.text_lines) = 1
    /\ Len(LineVars) > 1
    /\ Len(preview.lines) = 1
    /\ textlength(JoinedText, LineFont) > MaxWidth

\* C11: when the joined text of a multi-field line is wider than maxWidth,
\* the drawn line is the join of "short name: value" with every value cut to
\* at most 8 characters and an ellipsis, values of 8 or fewer characters
\* unchanged, and every abbreviated name whole.  (Fails: the name and the
\* value are recovered by splitting the text at its first colon, which is
\* inside the name when the name has a colon, and the value is stripped of
\* surrounding spaces.)
C11_MultiFieldTruncation ==
    PreviewedOverflowingLine =>
        DrawnText =
            join(separator, [i \in DOMAIN LineVars |->
                                short_var(LineVars[i]) \o Colon
                                    \o Cut8(str(RowAt(0)[LineVars[i]]))])

(***************************************************************************)
(* SpecFields: one row over three columns, each absent from the table,     *)
(* null or filled, every order and selection of the columns, with and      *)
(* without a barcode variable, with and without a font that loads.         *)
(***************************************************************************)
FieldColumns == {SKU, Price, Code}

\* the cells a column of the row can hold; Absent marks a column the
\* uploaded table does not have
Absent == [t |-> "absent", s |-> <<>>, n |-> 0]

FieldCells(c) ==
    {Absent, NaN, StrVal(<<"v">>)} \cup (IF c = Code THEN {StrVal(<<>>)} ELSE {})

InitFields ==
    /\ \E cells \in [FieldColumns -> {Absent, NaN, StrVal(<<"v">>), StrVal(<<>>)}] :
          /\ \A c \in FieldColumns : cells[c] \in FieldCells(c)
          /\ uploaded_data =
                 DataFrame(<<[c \in {d \in FieldColumns : cells[d] # Absent} |->
                                 cells[c]]>>)
    /\ \E order \in Orders(FieldColumns), chosen \in SUBSET FieldColumns,
          bv \in {<<>>, SKU, Code} :
          /\ chosen # {}
          /\ label_config =
                 Config(SelectSeq(order, LAMBDA v : v \in chosen), order, <<>>,
                        bv, default_barcode_settings, 400, 200)
    /\ BARCODE_AVAILABLE \in BOOLEAN
    /\ font_kind \in {"truetype", "none"}
    /\ glyph = [c \in {"narrow", "wide"} |-> IF c = "narrow" THEN 4 ELSE 8]
    /\ Fresh

SpecFields == InitFields /\ [][Next]_vars

\* the configured, selected, non-barcode fields whose value in the previewed
\* row is present and not null, in configured order
ExpectedTextFields ==
    SelectSeq(label_config.variable_order,
              LAMBDA v : /\ v \in Range(label_config.selected_variables)
                         /\ v # label_config.barcode_variable
                         /\ v \in DOMAIN RowAt(0)
                         /\ RowAt(0)[v] # NaN)

\* the previewed row without its null cells
RowWithoutNulls ==
    [c \in {d \in DOMAIN RowAt(0) : RowAt(0)[d] # NaN} |-> RowAt(0)[c]]

\* no line of the preview is empty, and every line was drawn
NoEmptyLine ==
    /\ \A i \in DOMAIN preview.text_lines : preview.text_lines[i] # <<>>
    /\ font_kind # "none" => Len(preview.lines) = Len(preview.text_lines)

\* C12 as stated: the fields of the composed lines are exactly the
\* configured, selected, non-barcode fields whose value is present and not
\* null, in configured order, and no line is empty.
C12_Original ==
    Previewed =>
        /\ Flatten(preview.text_lines) = ExpectedTextFields
        /\ NoEmptyLine

\* C12 amended: a field absent from the row or null never appears in the
\* lines, no line is empty, and the render is the one of the row without the
\* null cells; when a font loads, the fields of the lines are exactly the
\* configured, selected, non-barcode fields whose value is present and not
\* null, in configured order; when no font loads, no field is drawn.
C12_NullFieldsOmitted ==
    Previewed =>
        /\ \A v \in Range(Flatten(preview.text_lines)) :
               v \in DOMAIN RowAt(0) /\ RowAt(0)[v] # NaN
        /\ NoEmptyLine
        /\ create_label_from_data(RowWithoutNulls).lines = preview.lines
        /\ Flatten(preview.text_lines) =
               (IF font_kind = "none" THEN <<>> ELSE ExpectedTextFields)

\* C12 witness: a row with a null cell and an absent column among the
\* selected fields was rendered, with the one filled field as its one line
C12_Witness ==
    /\ Previewed
    /\ \E v \in Range(label_config.selected_variables) :
           v \in DOMAIN RowAt(0) /\ RowAt(0)[v] = NaN
               /\ v # label_config.barcode_variable
    /\ \E v \in Range(label_config.selected_variables) :
           v \notin DOMAIN RowAt(0) /\ v # label_config.barcode_variable
    /\ Len(preview.lines) = 1

\* C13: every render succeeds, and it draws a barcode exactly when a barcode
\* variable is configured, the row has that column and its value is not
\* null; otherwise neither barcode nor caption is drawn.  (Fails: for the
\* empty string the visual fallback raises, see C4, so a configured,
\* present, non-null value gives no barcode and no image.)
C13_BarcodeIffConfiguredAndPresent ==
    (preview # None /\ Len(uploaded_data.rows) > 0) =>
        /\ ~preview.raised
        /\ (preview.barcode # None) <=> HasBarcodeValue(RowAt(0))
        /\ preview.barcode # None => ~preview.barcode.raised

\* C14: the variable configured as barcode_variable is in no composed text
\* line and starts no drawn line, whatever the order and the selection, also
\* when it is listed in selected_variables and variable_order.
C14_BarcodeFieldNotInText ==
    Previewed =>
        /\ label_config.barcode_variable \notin Range(Flatten(preview.text_lines))
        /\ label_config.barcode_variable # <<>> =>
               \A i \in DOMAIN preview.lines :
                   ~StartsWith(preview.lines[i].text,
                               label_config.barcode_variable \o Colon)

\* C14 witness: the barcode variable is selected, ordered first and filled in
\* the row, and the preview has text lines and a barcode
C14_Witness ==
    /\ Previewed
    /\ label_config.barcode_variable # <<>>
    /\ label_config.barcode_variable \in Range(label_config.selected_variables)
    /\ label_config.variable_order[1] = label_config.barcode_variable
    /\ HasBarcodeValue(RowAt(0))
    /\ preview.barcode # None
    /\ Len(preview.lines) >= 1

(***************************************************************************)
(* SpecDims: renders with label_dimensions inside, at the ends of and      *)
(* outside the ranges of the two number inputs (label.py:311-323).         *)
(***************************************************************************)
\* min_value and max_value of the width and height inputs
WidthRange == 200..800

HeightRange == 100..600

DimsTried ==
    {<<100, 50>>, <<199, 100>>, <<200, 99>>, <<200, 100>>, <<400, 200>>,
     <<800, 600>>, <<801, 600>>, <<800, 601>>, <<1000, 700>>}

InitDims ==
    /\ \E cell \in BatchCells :
          uploaded_data =
              DataFrame(<<[c \in {SKU, Code} |->
                              IF c = SKU THEN StrVal(<<"A", "1">>) ELSE cell]>>)
    /\ \E dim \in DimsTried, bv \in {<<>>, Code} :
          label_config = Config(<<SKU, Code>>, <<SKU, Code>>, <<>>, bv,
                                default_barcode_settings, dim[1], dim[2])
    /\ BARCODE_AVAILABLE \in BOOLEAN
    /\ font_kind = "truetype"
    /\ glyph = [c \in {"narrow", "wide"} |-> IF c = "narrow" THEN 4 ELSE 8]
    /\ Fresh

SpecDims == InitDims /\ [][Next]_vars

DimsInBounds ==
    /\ label_config.label_dimensions.width \in WidthRange
    /\ label_config.label_dimensions.height \in HeightRange

\* C15: a render with a width outside [200,800] or a height outside
\* [100,600] fails, and no image is produced.  (Fails: create_label_from_data
\* never looks at the bounds and returns an image of the size it is given.)
C15_OutOfBoundsDimensionsFail ==
    (preview # None /\ Len(uploaded_data.rows) > 0 /\ ~DimsInBounds)
        => preview.raised

(***************************************************************************)
(* SpecDefaults: renders whose variable_settings and barcode_settings lack *)
(* some or all of their keys.                                              *)
(***************************************************************************)
\* a dictionary with only some of its keys
Restrict(d, keys) == [k \in keys |-> d[k]]

SetBarcodeSettings == [height |-> 60, show_text |-> TRUE, font_size |-> 14]

InitDefaults ==
    /\ uploaded_data =
           DataFrame(<<[c \in {SKU, Price, Code} |->
                           IF c = Code THEN StrVal(<<"1", "2">>)
                           ELSE StrVal(<<"v">>)]>>)
    /\ \E bkeys \in SUBSET {"height", "show_text", "font_size"},
          vkeys \in SUBSET {"font_size", "new_line"},
          vars_set \in SUBSET {SKU, Price} :
          label_config =
              Config(<<SKU, Price, Code>>, <<SKU, Price, Code>>,
                     [v \in vars_set |->
                         Restrict([font_size |-> 16, new_line |-> FALSE], vkeys)],
                     Code, Restrict(SetBarcodeSettings, bkeys), 400, 200)
    /\ BARCODE_AVAILABLE \in BOOLEAN
    /\ font_kind = "truetype"
    /\ glyph = [c \in {"narrow", "wide"} |-> IF c = "narrow" THEN 4 ELSE 8]
    /\ Fresh

SpecDefaults == InitDefaults /\ [][Next]_vars

\* the value a setting resolves to: the one set, or the documented default
Resolved(d, k, default) == IF k \in DOMAIN d THEN d[k] ELSE default

\* the style a field resolves to
ResolvedFieldStyle(v) ==
    LET settings == IF v \in DOMAIN label_config.variable_settings
                    THEN label_config.variable_settings[v] ELSE <<>>
    IN  [font_size |-> Resolved(settings, "font_size", 12),
         new_line |-> Resolved(settings, "new_line", TRUE)]

\* C16: a render whose variable_settings or barcode_settings lack entries
\* completes, and draws with the set values or else the defaults: font size
\* 12, new_line true, barcode height 40, caption size 10, and for show_text
\* the value initialize_session_state gives it.  (Fails: a barcode_settings
\* without 'height' raises KeyError at label.py:1071, and an unset show_text
\* is read as False although it is initialised to True.)
C16_DefaultsResolve ==
    (preview # None /\ Len(uploaded_data.rows) > 0) =>
        /\ ~preview.raised
        /\ \A i \in DOMAIN preview.lines :
               preview.lines[i].font_size =
                   SeqMax([j \in DOMAIN preview.text_lines[i] |->
                              ResolvedFieldStyle(preview.text_lines[i][j]).font_size])
                       * scale_factor
        /\ \A i \in DOMAIN preview.text_lines :
               \A j \in DOMAIN preview.text_lines[i] :
                   ResolvedFieldStyle(preview.text_lines[i][j]).new_line
                       => Len(preview.text_lines[i]) = 1
        /\ preview.barcode.height =
               Resolved(label_config.barcode_settings, "height", 40) * scale_factor
        /\ (preview.barcode.caption # None)
               <=> Resolved(label_config.barcode_settings, "show_text",
                            default_barcode_settings.show_text)
        /\ preview.barcode.caption # None =>
               preview.barcode.caption.font_size =
                   Resolved(label_config.barcode_settings, "font_size", 10)
                       * scale_factor

(***************************************************************************)
(* SpecLogo: one row, logos of several shapes, a corrupt one and none, at  *)
(* the ends and inside of the ranges of size and margin, at the six        *)
(* positions and an unknown one, on three canvases.                        *)
(***************************************************************************)
\* what Image.open finds in the uploaded bytes: the size of the picture, or
\* bytes that are no picture
LogoImages ==
    {[width |-> 100, height |-> 100, valid |-> TRUE],
     [width |-> 300, height |-> 100, valid |-> TRUE],
     [width |-> 100, height |-> 300, valid |-> TRUE],
     [width |-> 40, height |-> 29, valid |-> TRUE],
     [width |-> 1000, height |-> 1, valid |-> TRUE],
     [width |-> 100, height |-> 100, valid |-> FALSE]}

LogoPositions ==
    {"top-left", "top-center", "top-right",
     "bottom-left", "bottom-center", "bottom-right"}

InitLogo ==
    /\ uploaded_data =
           DataFrame(<<[c \in {SKU, Code} |->
                           IF c = SKU THEN StrVal(<<"A", "1">>)
                           ELSE StrVal(<<"1", "2">>)]>>)
    /\ \E enabled \in BOOLEAN, image \in LogoImages \cup {None},
          position \in LogoPositions \cup {"middle"},
          size \in {20, 75, 150}, margin \in {5, 30}, dim \in GeomDims :
          label_config =
              [Config(<<SKU, Code>>, <<SKU, Code>>, <<>>, Code,
                      default_barcode_settings, dim[1], dim[2])
                  EXCEPT !.logo_settings =
                      [enabled |-> enabled, image_data |-> image,
                       position |-> position, size |-> size,
                       margin |-> margin]]
    /\ BARCODE_AVAILABLE \in BOOLEAN
    /\ font_kind = "truetype"
    /\ glyph = [c \in {"narrow", "wide"} |-> IF c = "narrow" THEN 4 ELSE 8]
    /\ Fresh

SpecLogo == InitLogo /\ [][Next]_vars

\* the configured logo, its picture and its scaled size and margin
TheLogo == label_config.logo_settings

LogoSource == TheLogo.image_data

LogoSizePx == TheLogo.size * scale_factor

LogoMarginPx == TheLogo.margin * scale_factor

\* a preview of a row was rendered with a logo on it
PreviewedWithLogo == Previewed /\ preview.logo # None

\* C17: the larger side of the resized logo is size * scale_factor and the
\* smaller side is the proportionally scaled value, size * scale_factor *
\* smaller / larger, cut to an integer.  (Fails: the quotient is taken in
\* double precision through the rounded aspect ratio, and a value that is an
\* integer exactly can come out just below it.)
C17_LogoAspectScaling ==
    PreviewedWithLogo =>
        /\ Max(preview.logo.width, preview.logo.height) = LogoSizePx
        /\ IF LogoSource.width > LogoSource.height
           THEN /\ preview.logo.width = LogoSizePx
                /\ preview.logo.height =
                       (LogoSizePx * LogoSource.height) \div LogoSource.width
           ELSE /\ preview.logo.height = LogoSizePx
                /\ preview.logo.width =
                       (LogoSizePx * LogoSource.width) \div LogoSource.height

\* the anchor of a position, from its two words
AnchorX(position) ==
    IF position \in {"top-left", "bottom-left"} THEN LogoMarginPx
    ELSE IF position \in {"top-center", "bottom-center"}
         THEN (preview.canvas[1] - preview.logo.width) \div 2
         ELSE preview.canvas[1] - preview.logo.width - LogoMarginPx

AnchorY(position) ==
    IF position \in {"top-left", "top-center", "top-right"} THEN LogoMarginPx
    ELSE preview.canvas[2] - preview.logo.height - LogoMarginPx

\* the logo is placed by the formulas of its position; an unknown position
\* is placed as top-right
LogoAtAnchor ==
    LET position == IF TheLogo.position \in LogoPositions
                    THEN TheLogo.position ELSE "top-right"
    IN  /\ preview.logo.x = AnchorX(position)
        /\ preview.logo.y = AnchorY(position)

\* the pasted logo lies inside the canvas
LogoInsideCanvas ==
    /\ preview.logo.x >= 0
    /\ preview.logo.y >= 0
    /\ preview.logo.x + preview.logo.width <= preview.canvas[1]
    /\ preview.logo.y + preview.logo.height <= preview.canvas[2]

\* C18: the top-left corner of the logo is given by the margin and centring
\* formulas of its position, an unknown position counting as top-right, and
\* a logo smaller than the canvas lies entirely inside the canvas.  (Fails:
\* the margin is not counted against the canvas, so a logo that fits leaves
\* the canvas when logo plus margin do not fit.)
C18_LogoPlacement ==
    PreviewedWithLogo =>
        /\ LogoAtAnchor
        /\ (preview.logo.width < preview.canvas[1]
                /\ preview.logo.height < preview.canvas[2])
           => LogoInsideCanvas

\* processing of the configured logo fails: the bytes are no picture, or the
\* resize is degenerate because a side comes out as 0
LogoProcessingFails ==
    /\ TheLogo.enabled
    /\ LogoSource # None
    /\ \/ ~LogoSource.valid
       \/ (LogoSizePx * LogoSource.height) \div LogoSource.width = 0
       \/ (LogoSizePx * LogoSource.width) \div LogoSource.height = 0

\* C19: a render with a logo configured always completes with an image of
\* the configured size; when the processing of the logo fails the label has
\* no logo; and a logo is composited only when logo_settings is enabled and
\* image data is present.
C19_LogoFailureSwallowed ==
    (preview # None /\ Len(uploaded_data.rows) > 0) =>
        /\ ~preview.raised
        /\ preview.size = ConfiguredSize
        /\ LogoProcessingFails => preview.logo = None
        /\ preview.logo # None => (TheLogo.enabled /\ LogoSource # None)

\* C19 witness: a corrupt logo, and a logo whose resize is degenerate, were
\* each rendered as a label of the configured size without a logo
C19_Witness ==
    /\ Previewed
    /\ LogoProcessingFails
    /\ preview.logo = None
    /\ preview.size = ConfiguredSize
    /\ preview.barcode # None

(***************************************************************************)
(* Determinism of the render, under Spec: the same row is rendered again   *)
(* after the session has generated a batch.                                *)
(***************************************************************************)
\* the preview shows the visual fallback barcode
PreviewedVisualBarcode ==
    Previewed /\ preview.barcode # None /\ preview.barcode.kind = "visual"

RenderStep == preview' # preview \/ batch' # batch

\* C21: a step that renders (one preview or a whole batch, failing renders
\* included) leaves label_config, with every key of it, as it was before.
C21_RenderLeavesConfiguration ==
    [][RenderStep => label_config' = label_config]_vars

\* a batch with a failing render and a preview have both run, and the
\* configuration is still the one the session started with
C21_Witness ==
    /\ batch # None
    /\ batch.warnings # <<>>
    /\ batch.zip # <<>>
    /\ preview # None
    /\ label_config = Config(<<SKU, Code>>, <<SKU, Code>>, <<>>, Code,
                             default_barcode_settings, 400, 200)

(***************************************************************************)
(* SpecBarcode: one row whose barcode value is short, long enough for the  *)
(* cap of 60 bars, or outside the encoder's character set, with every      *)
(* barcode height, caption setting and canvas size of GeomDims.            *)
(***************************************************************************)
BarcodeValues ==
    {<<"A">>,
     <<"0", "9", "d">>,
     <<"é", "1">>,
     <<"S", "K", "U", "-", "0", "0", "7">>,
     <<"0", "1", "2", "3", "4", "5", "6", "7", "8", "9",
       "A", "B", "C", "D", "E", "F">>}

\* the captions sizes offered by the selectbox of render_barcode_config
CaptionSizes == {8, 10, 12, 14, 16}

BarcodeSettingsTried ==
    {[height |-> h, show_text |-> s, font_size |-> f] :
        h \in {20, 40, 120}, s \in BOOLEAN, f \in CaptionSizes}

InitBarcode ==
    /\ \E v \in BarcodeValues :
          uploaded_data =
              DataFrame(<<[c \in {SKU, Code} |->
                              IF c = Code THEN StrVal(v) ELSE StrVal(<<"v">>)]>>)
    /\ \E dim \in GeomDims, bs \in BarcodeSettingsTried :
          label_config = Config(<<SKU, Code>>, <<SKU, Code>>, <<>>, Code,
                                bs, dim[1], dim[2])
    /\ BARCODE_AVAILABLE \in BOOLEAN
    /\ font_kind \in {"truetype", "none"}
    /\ glyph = [c \in {"narrow", "wide"} |-> IF c = "narrow" THEN 4 ELSE 8]
    /\ Fresh

SpecBarcode == InitBarcode /\ [][Next]_vars

\* ---------------------------------------------------------------------------
\* C22  the pattern of the fallback barcode
\* ---------------------------------------------------------------------------

\* the string the previewed barcode was drawn for
BarcodeValue == str(RowAt(0)[label_config.barcode_variable])

\* the number of bar positions of the previewed fallback barcode
BarSlots == 0..(Min(4 * Len(BarcodeValue), 60) - 1)

\* the code point of the character bar position i uses
CodeOf(i) == ord(BarcodeValue[(i % Len(BarcodeValue)) + 1])

Painted(i) ==
    \E k \in DOMAIN preview.barcode.bars : preview.barcode.bars[k].i = i

BarAt(i) ==
    preview.barcode.bars[CHOOSE k \in DOMAIN preview.barcode.bars :
                             preview.barcode.bars[k].i = i]

PaintedHeight(i) == BarAt(i).y1 - BarAt(i).y0

\* C22 as stated: there are min(4 * len(value), 60) bar positions, position i
\* uses character i mod len(value), and whether a bar is painted and how high
\* it is depend only on that character's code point modulo 3 and modulo 4.
C22_Original ==
    PreviewedVisualBarcode =>
        /\ \A k \in DOMAIN preview.barcode.bars :
              preview.barcode.bars[k].i \in BarSlots
        /\ \A i, j \in BarSlots :
              (CodeOf(i) % 3 = CodeOf(j) % 3 /\ CodeOf(i) % 4 = CodeOf(j) % 4)
                  => /\ Painted(i) <=> Painted(j)
                     /\ (Painted(i) /\ Painted(j))
                            => PaintedHeight(i) = PaintedHeight(j)

\* C22 (amended): there are min(4 * len(value), 60) bar positions, position i
\* uses character i mod len(value); the bar is painted unless
\* (code point + i) is a multiple of 3, so its presence depends on the
\* position as well as on the character, and its height is the box height
\* less 12 when the code point is a multiple of 4, else less 18 when it is a
\* multiple of 3, else less 9.
C22_VisualBarcodePattern ==
    PreviewedVisualBarcode =>
        /\ \A k \in DOMAIN preview.barcode.bars :
              preview.barcode.bars[k].i \in BarSlots
        /\ Len(preview.barcode.bars)
               = Cardinality({i \in BarSlots : Painted(i)})
        /\ \A i \in BarSlots :
              /\ Painted(i) <=> (CodeOf(i) + i) % 3 # 0
              /\ Painted(i) =>
                    PaintedHeight(i) =
                        preview.barcode.height
                            - (IF CodeOf(i) % 4 = 0 THEN 12
                               ELSE IF CodeOf(i) % 3 = 0 THEN 18
                               ELSE 9)

\* a fallback barcode of a value long enough for the cap, in which two
\* positions using the same character differ in presence
C22_Witness ==
    /\ PreviewedVisualBarcode
    /\ 4 * Len(BarcodeValue) > 60
    /\ \E i, j \in BarSlots :
          CodeOf(i) = CodeOf(j) /\ Painted(i) /\ ~Painted(j)

\* ---------------------------------------------------------------------------
\* C23  the caption of the barcode
\* ---------------------------------------------------------------------------

ShowText == Get(label_config.barcode_settings, "show_text", FALSE)

\* the font of the caption, None when no font loads
CaptionFont ==
    load_high_quality_font(
        Get(label_config.barcode_settings, "font_size", 10) * scale_factor)

TheCaption == preview.barcode.caption

CaptionBottom == TheCaption.y + TheCaption.font_size

\* the caption is centred, a fixed gap under the box, and its bottom edge is
\* inside the canvas and inside the bottom space create_label_from_data
\* keeps free of text for barcode and caption
CaptionPlaced ==
    /\ TheCaption.text = BarcodeValue
    /\ LET slack == preview.canvas[1]
                        - textlength(TheCaption.text, CaptionFont)
                        - 2 * TheCaption.x
       IN  slack \in {0, 1}
    /\ TheCaption.y
           = preview.barcode.y + preview.barcode.height + 8 * scale_factor
    /\ TheCaption.y >= 0
    /\ CaptionBottom <= preview.canvas[2]
    /\ CaptionBottom >= preview.available_height

\* C23 as stated: the caption is drawn iff show_text is enabled, and a drawn
\* caption is placed as above for every caption size.
C23_Original ==
    PreviewedWithBarcode =>
        /\ (TheCaption # None) <=> ShowText
        /\ TheCaption # None => CaptionPlaced

\* C23 (amended): the caption is drawn iff show_text is enabled and a font
\* resolves for the caption size; a drawn caption is centred, its top is
\* 8 x scale below the bottom of the barcode box, and for every caption size
\* in {8,10,12,14,16} its bottom edge is inside the canvas and inside the
\* space reserved for barcode plus caption.
C23_CaptionPlacement ==
    PreviewedWithBarcode =>
        /\ (TheCaption # None) <=> (ShowText /\ CaptionFont # None)
        /\ TheCaption # None => CaptionPlaced

\* the largest caption under the highest barcode on the smallest canvas
C23_Witness ==
    /\ PreviewedWithBarcode
    /\ TheCaption # None
    /\ TheCaption.font_size = 16 * scale_factor
    /\ preview.barcode.height = 120 * scale_factor
    /\ preview.size = <<200, 100>>

\* ---------------------------------------------------------------------------
\* C24  the preview of a table without rows
\* ---------------------------------------------------------------------------

\* the preview page ran on an uploaded table that has no row
PreviewedEmptyTable == preview # None /\ Len(uploaded_data.rows) = 0

\* C24: for an empty table the preview is the placeholder of the configured
\* size with the border and the "No data" caption only; no text, barcode or
\* logo step has run, and no row was accessed: the page shows the
\* placeholder and reports no error.  (Fails: after showing the image the
\* page reads df.iloc[0], which raises for an empty table, and reports
\* "Error generating preview".)
C24_NoDataPlaceholder ==
    PreviewedEmptyTable =>
        /\ ~preview.raised
        /\ preview.placeholder
        /\ preview.size = ConfiguredSize
        /\ preview.caption
        /\ DOMAIN preview \cap {"text_lines", "lines", "barcode", "logo"} = {}
        /\ notice.preview = "none"

(***************************************************************************)
(* Settlement analyzer (src/app.py): the order summary.                    *)
(* A settlement file is the sequence of its rows; amounts are in           *)
(* thousandths of a rupee, identifiers are sequences of characters.        *)
(***************************************************************************)
\* a table of the settlement analyzer
Frame(rows) == [t |-> "DataFrame", rows |-> rows]

\* lexicographic order of two strings, as pandas sorts object columns
RECURSIVE StrLess(_, _)
StrLess(a, b) ==
    IF b = <<>> THEN FALSE
    ELSE IF a = <<>> THEN TRUE
    ELSE IF ord(Head(a)) # ord(Head(b)) THEN ord(Head(a)) < ord(Head(b))
    ELSE StrLess(Tail(a), Tail(b))

\* the group key ['order-id', 'sku'] of a row
order_sku(r) == <<r.order_id, r.sku>>

KeyLess(k, l) == StrLess(k[1], l[1]) \/ (k[1] = l[1] /\ StrLess(k[2], l[2]))

\* the keys of a groupby, which sorts them
RECURSIVE sorted_keys(_)
sorted_keys(S) ==
    IF S = {} THEN <<>>
    ELSE LET first == CHOOSE k \in S : \A l \in S \ {k} : KeyLess(k, l)
         IN  <<first>> \o sorted_keys(S \ {first})

\* Series.sum() of the amounts of some rows
RECURSIVE sum_amount(_)
sum_amount(rows) ==
    IF rows = <<>> THEN 0 ELSE Head(rows).amount + sum_amount(Tail(rows))

\* Series.sum() of 'quantity-purchased', which skips blank cells
RECURSIVE sum_quantity(_)
sum_quantity(rows) ==
    IF rows = <<>> THEN 0
    ELSE (IF notna(Head(rows).quantity_purchased)
          THEN Head(rows).quantity_purchased.n ELSE 0)
             + sum_quantity(Tail(rows))

\* Series.round(2) of an amount in thousandths
round2(x) == ((x + 5) \div 10) * 10

\* DataFrame.drop_duplicates(): the first occurrence of every row is kept
RECURSIVE drop_duplicates(_)
drop_duplicates(rows) ==
    IF rows = <<>> THEN <<>>
    ELSE LET front == drop_duplicates(SubSeq(rows, 1, Len(rows) - 1))
             last == rows[Len(rows)]
         IN  IF last \in Range(front) THEN front ELSE Append(front, last)

\* ORDER = df[df['transaction-type'] == 'Order'] (app.py:82)
ORDER(df) == SelectSeq(df.rows, LAMBDA r : r.transaction_type = "Order")

\* PRINCIPAL_QUANTITIES merged into the summary and filled with 0
\* (app.py:88-94)
quantity_ordered(order_rows, key) ==
    LET principal == SelectSeq(order_rows,
                               LAMBDA r : /\ r.amount_description = "Principal"
                                          /\ order_sku(r) = key)
    IN  IF principal = <<>> THEN 0 ELSE sum_quantity(principal)

\* ORDER[['order-id', 'sku', 'settlement-id', 'marketplace-name',
\* 'posted-date']].drop_duplicates() (app.py:98)
additional_fields(order_rows) ==
    drop_duplicates([i \in DOMAIN order_rows |->
                        [order_id |-> order_rows[i].order_id,
                         sku |-> order_rows[i].sku,
                         settlement_id |-> order_rows[i].settlement_id,
                         marketplace_name |-> order_rows[i].marketplace_name,
                         posted_date |-> order_rows[i].posted_date]])

RECURSIVE concat(_)
concat(seqs) == IF seqs = <<>> THEN <<>> ELSE Head(seqs) \o concat(Tail(seqs))

\* ORDER_SUMMARY of app.py:82-106: the grouped sums, the quantities, the left
\* merge with the additional fields (one output row per matching row of the
\* right table), the rounding and the sort by order-id and sku
ORDER_SUMMARY(df) ==
    LET order_rows == ORDER(df)
        keys == sorted_keys({order_sku(r) : r \in Range(order_rows)})
        extra == additional_fields(order_rows)
        merged(key) ==
            LET of_key == SelectSeq(order_rows, LAMBDA r : order_sku(r) = key)
                matches == SelectSeq(extra, LAMBDA e : order_sku(e) = key)
            IN  [j \in DOMAIN matches |->
                    [order_id |-> key[1],
                     sku |-> key[2],
                     total_amount |-> round2(sum_amount(of_key)),
                     quantity_ordered |-> quantity_ordered(order_rows, key),
                     settlement_id |-> matches[j].settlement_id,
                     marketplace_name |-> matches[j].marketplace_name,
                     posted_date |-> matches[j].posted_date]]
    IN  Frame(concat([i \in DOMAIN keys |-> merged(keys[i])]))

\* the steps before the summary (app.py:48-76) read the first row and the two
\* reserve rows with .iloc[0], which raises when they are missing
settlement_summary_shown(df) ==
    /\ df.rows # <<>>
    /\ \E i \in DOMAIN df.rows :
          df.rows[i].amount_description
              = "Previous Reserve Amount Balance"
    /\ \E i \in DOMAIN df.rows :
          df.rows[i].amount_description = "Current Reserve Amount"

\* one run of the script with a file in the uploader (app.py:30-151): the
\* table is stored, and the summary is stored unless a step before it raised
settlement_file_uploaded ==
    /\ uploaded_file # None
    /\ settlement_data' = uploaded_file
    /\ order_summary' = IF settlement_summary_shown(uploaded_file)
                        THEN ORDER_SUMMARY(uploaded_file)
                        ELSE order_summary
    /\ UNCHANGED <<uploaded_data, label_config, generated_labels,
                   BARCODE_AVAILABLE, font_kind, glyph, preview, batch, notice,
                   uploaded_file>>

NextSettlement == settlement_file_uploaded

(***************************************************************************)
(* SpecSettlement: settlement files with the two reserve rows and up to    *)
(* MaxRows rows of orders and refunds: three order-SKU pairs, Principal    *)
(* and Commission rows, two posting dates.                                 *)
(***************************************************************************)
SettlementRow(type, order, sku, description, amount, quantity, date) ==
    [transaction_type |-> type, order_id |-> order, sku |-> sku,
     amount_description |-> description, amount |-> amount,
     quantity_purchased |-> quantity, settlement_id |-> <<"7">>,
     marketplace_name |-> <<"A", "m", "a", "z", "o", "n">>,
     posted_date |-> date]

ReserveRows ==
    <<SettlementRow("", <<>>, <<>>, "Previous Reserve Amount Balance",
                    1000000, NaN, <<>>),
      SettlementRow("", <<>>, <<>>, "Current Reserve Amount",
                    -1000000, NaN, <<>>)>>

OrderSkuPairs ==
    {<<<<"O", "1">>, <<"S", "1">>>>, <<<<"O", "1">>, <<"S", "2">>>>,
     <<<<"O", "2">>, <<"S", "1">>>>}

PostedDates == {<<"0", "1">>, <<"0", "2">>}

SettlementRowsTried ==
    {SettlementRow("Order", k[1], k[2], "Principal", 499000,
                   IntVal(IF d = <<"0", "1">> THEN 1 ELSE 2), d) :
        k \in OrderSkuPairs, d \in PostedDates}
    \cup {SettlementRow("Order", k[1], k[2], "Commission", -74850, NaN, d) :
        k \in OrderSkuPairs, d \in PostedDates}
    \cup {SettlementRow("Refund", <<"O", "1">>, <<"S", "1">>, "Principal",
                        -499000, IntVal(1), <<"0", "2">>)}

SettlementFiles ==
    {Frame(ReserveRows \o body) :
        body \in SeqsOf(SettlementRowsTried, 0, MaxRows)}
    \cup {Frame(<<>>)}

InitSettlement ==
    /\ uploaded_file \in SettlementFiles
    /\ FreshApp
    /\ uploaded_data = None
    /\ label_config = Config(<<>>, <<>>, <<>>, <<>>,
                             default_barcode_settings, 400, 200)
    /\ BARCODE_AVAILABLE = TRUE
    /\ font_kind = "truetype"
    /\ glyph = [c \in {"narrow", "wide"} |-> IF c = "narrow" THEN 4 ELSE 8]
    /\ FreshLabels

SpecSettlement == InitSettlement /\ [][NextSettlement]_vars

\* ---------------------------------------------------------------------------
\* C25  one summary row per order-SKU pair
\* ---------------------------------------------------------------------------

\* the rows of the processed file with transaction-type 'Order'
OrderRows == ORDER(settlement_data)

RowsOfPair(key) == SelectSeq(OrderRows, LAMBDA r : order_sku(r) = key)

PrincipalRowsOfPair(key) ==
    SelectSeq(RowsOfPair(key), LAMBDA r : r.amount_description = "Principal")

SummaryRowsOf(key) ==
    {i \in DOMAIN order_summary.rows :
        order_sku(order_summary.rows[i]) = key}

\* C25: after a settlement file is processed, ORDER_SUMMARY has exactly one
\* row for each distinct (order-id, sku) pair of the 'Order' rows and no
\* other row; its total_amount is the sum of the pair's amounts and its
\* quantity_ordered the sum of quantity-purchased over the pair's Principal
\* rows (0 without one), also when the pair's rows differ in posted-date.
\* (Fails: the merge with the additional fields gives one summary row per
\* distinct posted-date of the pair.)
C25_OneRowPerOrderSku ==
    order_summary # None =>
        /\ \A i \in DOMAIN order_summary.rows :
              order_sku(order_summary.rows[i])
                  \in {order_sku(r) : r \in Range(OrderRows)}
        /\ \A key \in {order_sku(r) : r \in Range(OrderRows)} :
              /\ Cardinality(SummaryRowsOf(key)) = 1
              /\ \A i \in SummaryRowsOf(key) :
                    /\ order_summary.rows[i].total_amount
                           = sum_amount(RowsOfPair(key))
                    /\ order_summary.rows[i].quantity_ordered
                           = sum_quantity(PrincipalRowsOfPair(key))

(***************************************************************************)
(* The configure page (label.py:236-434): selection, order and the         *)
(* settings the widgets store on every run of the page.                    *)
(***************************************************************************)
\* list(df.columns) of a table with rows
available_columns(df) ==
    IF df.rows = <<>> THEN {} ELSE DOMAIN df.rows[1].row

\* render_variable_config with its widgets untouched (label.py:395-432): the
\* stored entry is created if missing and updated with the widget values
stored_variable_setting(config, var_name) ==
    LET current_settings == Get(config.variable_settings, var_name, <<>>)
    IN  [font_size |-> Get(current_settings, "font_size", 12),
         style |-> IF Get(current_settings, "style", "Normal") = "Normal"
                   THEN "Normal" ELSE "Bold",
         new_line |-> Get(current_settings, "new_line", TRUE)]

\* the body of configure_labels_page below the selection (label.py:284-329),
\* with untouched widgets: settings of the listed variables are stored, a
\* barcode variable that is no option any more falls back to 'None'
configure_page_body(config) ==
    LET selected_vars == config.selected_variables
        listed == {v \in Range(config.variable_order) :
                      v \in Range(selected_vars)}
    IN  IF selected_vars = <<>> THEN config
        ELSE [config EXCEPT
                 !.variable_settings =
                     [v \in DOMAIN config.variable_settings \cup listed |->
                         IF v \in listed
                         THEN stored_variable_setting(config, v)
                         ELSE config.variable_settings[v]],
                 !.barcode_variable =
                     IF config.barcode_variable \in Range(selected_vars)
                     THEN config.barcode_variable ELSE <<>>]

\* what the multiselect can return after one interaction: an option added at
\* the end, one entry removed, or everything cleared
multiselect_changes(current_selection, options) ==
    ({Append(current_selection, c) : c \in options \ Range(current_selection)}
     \cup {SelectSeq(current_selection, LAMBDA v : v # c) :
              c \in Range(current_selection)}
     \cup {<<>>}) \ {current_selection}

\* the order after a change of selection (label.py:270-279)
updated_order(current_order, selected_vars) ==
    LET appended ==
            current_order
                \o SelectSeq(selected_vars,
                             LAMBDA v : v \notin Range(current_order))
    IN  SelectSeq(appended, LAMBDA v : v \in Range(selected_vars))

\* configure_labels_page with a changed selection (label.py:236-282), and the
\* run of the page that st.rerun() starts
configure_labels_page(selected_vars) ==
    /\ uploaded_data # None
    /\ Range(label_config.selected_variables)
           \subseteq available_columns(uploaded_data)
    /\ selected_vars # label_config.selected_variables
    /\ label_config' =
           configure_page_body(
               [label_config EXCEPT
                   !.selected_variables = selected_vars,
                   !.variable_order =
                       updated_order(label_config.variable_order,
                                     selected_vars)])
    /\ UNCHANGED <<uploaded_data, generated_labels, BARCODE_AVAILABLE,
                   font_kind, glyph, preview, batch, notice, app_vars>>

SelectionChanged ==
    \E selected_vars \in
           multiselect_changes(label_config.selected_variables,
                               IF uploaded_data = None THEN {}
                               ELSE available_columns(uploaded_data)) :
        configure_labels_page(selected_vars)

\* current_order with the entries at positions i and j (from 0) exchanged
swapped(current_order, i, j) ==
    [current_order EXCEPT ![i + 1] = current_order[j + 1],
                          ![j + 1] = current_order[i + 1]]

\* a move that puts the variable first instead of one place up
move_up_to_front(index) ==
    /\ uploaded_data # None
    /\ label_config.selected_variables # <<>>
    /\ index \in 1..(Len(label_config.variable_order) - 1)
    /\ label_config.variable_order[index + 1]
           \in Range(label_config.selected_variables)
    /\ LET current_order == label_config.variable_order
           var_name == current_order[index + 1]
       IN  label_config' =
               configure_page_body(
                   [label_config EXCEPT
                       !.variable_order =
                           <<var_name>>
                               \o SelectSeq(current_order,
                                            LAMBDA v : v # var_name)])
    /\ UNCHANGED <<uploaded_data, generated_labels, BARCODE_AVAILABLE,
                   font_kind, glyph, preview, batch, notice, app_vars>>

\* the "↑" button of the variable listed at position index (label.py:371-377)
move_up(index) ==
    /\ uploaded_data # None
    /\ label_config.selected_variables # <<>>
    /\ index \in 1..(Len(label_config.variable_order) - 1)
    /\ label_config.variable_order[index + 1]
           \in Range(label_config.selected_variables)
    /\ LET current_order == label_config.variable_order
           var_name == current_order[index + 1]
           idx == IndexOf(current_order, var_name) - 1
       IN  /\ idx > 0
           /\ label_config' =
                  configure_page_body(
                      [label_config EXCEPT
                          !.variable_order =
                              swapped(current_order, idx, idx - 1)])
    /\ UNCHANGED <<uploaded_data, generated_labels, BARCODE_AVAILABLE,
                   font_kind, glyph, preview, batch, notice, app_vars>>

\* the "↓" button of the variable listed at position index (label.py:379-385)
move_down(index) ==
    /\ uploaded_data # None
    /\ label_config.selected_variables # <<>>
    /\ index \in 0..(Len(label_config.variable_order) - 2)
    /\ label_config.variable_order[index + 1]
           \in Range(label_config.selected_variables)
    /\ LET current_order == label_config.variable_order
           var_name == current_order[index + 1]
           idx == IndexOf(current_order, var_name) - 1
       IN  /\ idx < Len(current_order) - 1
           /\ label_config' =
                  configure_page_body(
                      [label_config EXCEPT
                          !.variable_order =
                              swapped(current_order, idx, idx + 1)])
    /\ UNCHANGED <<uploaded_data, generated_labels, BARCODE_AVAILABLE,
                   font_kind, glyph, preview, batch, notice, app_vars>>

MoveUp ==
    \E index \in 0..(Len(label_config.variable_order) - 1) : move_up(index)

MoveDown ==
    \E index \in 0..(Len(label_config.variable_order) - 1) : move_down(index)

NextOrder == SelectionChanged \/ MoveUp \/ MoveDown

(***************************************************************************)
(* SpecOrder: a table with four columns, the configuration of a new        *)
(* session, and every sequence of selection changes and moves.             *)
(***************************************************************************)
\* label_config of initialize_session_state (label.py:60-82)
initial_label_config ==
    Config(<<>>, <<>>, <<>>, <<>>, default_barcode_settings, 400, 200)

InitOrder ==
    /\ uploaded_data =
           DataFrame(<<[c \in {SKU, Price, Code, Product_Name} |->
                           StrVal(<<"v">>)]>>)
    /\ label_config = initial_label_config
    /\ BARCODE_AVAILABLE = TRUE
    /\ font_kind = "truetype"
    /\ glyph = [c \in {"narrow", "wide"} |-> IF c = "narrow" THEN 4 ELSE 8]
    /\ Fresh

SpecOrder == InitOrder /\ [][NextOrder]_vars

\* ---------------------------------------------------------------------------
\* C26  variable_order is a permutation of selected_variables
\* ---------------------------------------------------------------------------

NoDuplicates(s) == \A i, j \in DOMAIN s : s[i] = s[j] => i = j

OrderIsPermutationOfSelection ==
    /\ NoDuplicates(label_config.variable_order)
    /\ Range(label_config.variable_order)
           = Range(label_config.selected_variables)
    /\ Len(label_config.variable_order)
           = Len(label_config.selected_variables)

\* the step exchanged two neighbours of variable_order and nothing else of it
NeighboursSwapped ==
    \E i \in 1..(Len(label_config.variable_order) - 1) :
        label_config'.variable_order =
            [label_config.variable_order EXCEPT
                ![i] = label_config.variable_order[i + 1],
                ![i + 1] = label_config.variable_order[i]]

\* C26: after any sequence of selection changes and moves, variable_order
\* has no duplicates and holds exactly the selected variables; a move up or
\* down exchanges the moved variable with its immediate neighbour and leaves
\* every other position and selected_variables unchanged.
C26_OrderPermutation ==
    /\ []OrderIsPermutationOfSelection
    /\ [][(MoveUp \/ MoveDown) =>
            /\ NeighboursSwapped
            /\ label_config'.selected_variables
                   = label_config.selected_variables]_vars

\* three variables are selected, one was deselected again, and the order
\* differs from the order of selection
C26_Witness ==
    /\ Len(label_config.selected_variables) = 3
    /\ label_config.variable_order # label_config.selected_variables
    /\ DOMAIN label_config.variable_settings
           # Range(label_config.selected_variables)

(***************************************************************************)
(* The quick adjustments of the preview page (label.py:825-846).           *)
(***************************************************************************)
\* config['variable_settings'][var].get('font_size', 12) of the buttons,
\* after the entry was created if missing
current_font_size(config, var) ==
    Get(Get(config.variable_settings, var, <<>>), "font_size", 12)

\* the loop of a font button: every selected variable gets an entry if it
\* has none, and its font_size becomes the new size given for it
fonts_adjusted(config, new_sizes) ==
    LET selected == Range(config.selected_variables)
        entry(v) == Get(config.variable_settings, v, <<>>)
    IN  [config EXCEPT
            !.variable_settings =
                [v \in DOMAIN config.variable_settings \cup selected |->
                    IF v \in selected
                    THEN [k \in DOMAIN entry(v) \cup {"font_size"} |->
                             IF k = "font_size" THEN new_sizes[v]
                             ELSE entry(v)[k]]
                    ELSE config.variable_settings[v]]]

\* the preview page as the user sees it when a button is pressed: its two
\* checks passed and the preview was shown
preview_page_shown ==
    /\ uploaded_data # None
    /\ label_config.selected_variables # <<>>
    /\ preview # None

\* an increase without the upper limit
increase_all_fonts_unclamped ==
    /\ preview_page_shown
    /\ LET config ==
               fonts_adjusted(
                   label_config,
                   [v \in Range(label_config.selected_variables) |->
                       current_font_size(label_config, v) + 2])
           image == preview_label(uploaded_data, config)
       IN  /\ label_config' = config
           /\ preview' = image
           /\ notice' = [notice EXCEPT !.preview = preview_notice(image)]
    /\ UNCHANGED <<uploaded_data, generated_labels, BARCODE_AVAILABLE,
                   font_kind, glyph, batch, app_vars>>

\* "Increase All Fonts" (label.py:830-837) and the run of the preview page
\* that st.rerun() starts
increase_all_fonts ==
    /\ preview_page_shown
    /\ LET config ==
               fonts_adjusted(
                   label_config,
                   [v \in Range(label_config.selected_variables) |->
                       Min(24, current_font_size(label_config, v) + 2)])
           image == preview_label(uploaded_data, config)
       IN  /\ label_config' = config
           /\ preview' = image
           /\ notice' = [notice EXCEPT !.preview = preview_notice(image)]
    /\ UNCHANGED <<uploaded_data, generated_labels, BARCODE_AVAILABLE,
                   font_kind, glyph, batch, app_vars>>

\* "Decrease All Fonts" (label.py:839-846) and the run of the preview page
\* that st.rerun() starts
decrease_all_fonts ==
    /\ preview_page_shown
    /\ LET config ==
               fonts_adjusted(
                   label_config,
                   [v \in Range(label_config.selected_variables) |->
                       Max(8, current_font_size(label_config, v) - 2)])
           image == preview_label(uploaded_data, config)
       IN  /\ label_config' = config
           /\ preview' = image
           /\ notice' = [notice EXCEPT !.preview = preview_notice(image)]
    /\ UNCHANGED <<uploaded_data, generated_labels, BARCODE_AVAILABLE,
                   font_kind, glyph, batch, app_vars>>

NextFonts == preview_design_page \/ increase_all_fonts \/ decrease_all_fonts

(***************************************************************************)
(* SpecFonts: one row, one or two selected variables with or without a     *)
(* stored entry, sizes at and next to both limits, and an unselected       *)
(* variable with settings of its own.                                      *)
(***************************************************************************)
FontSizesTried == {8, 9, 12, 23, 24}

InitFonts ==
    /\ uploaded_data =
           DataFrame(<<[c \in {SKU, Price, Code} |-> StrVal(<<"v">>)]>>)
    /\ \E selected \in {<<SKU>>, <<Price, SKU>>} :
       \E stored \in SUBSET Range(selected) :
       \E sizes \in [stored -> FontSizesTried] :
          label_config =
              Config(selected, selected,
                     [v \in stored \cup {Code} |->
                         IF v = Code
                         THEN [font_size |-> 16, style |-> "Bold",
                               new_line |-> FALSE]
                         ELSE variable_setting(sizes[v], TRUE)],
                     <<>>, default_barcode_settings, 400, 200)
    /\ BARCODE_AVAILABLE = TRUE
    /\ font_kind = "truetype"
    /\ glyph = [c \in {"narrow", "wide"} |-> IF c = "narrow" THEN 4 ELSE 8]
    /\ Fresh

SpecFonts == InitFonts /\ [][NextFonts]_vars

\* ---------------------------------------------------------------------------
\* C27  the font buttons keep the sizes in [8, 24]
\* ---------------------------------------------------------------------------

SelectedSet == Range(label_config.selected_variables)

\* the font size the configuration gives a variable
FontSizeOf(config, v) ==
    Get(Get(config.variable_settings, v, <<>>), "font_size", 12)

\* nothing but the entries of the selected variables differs after the step
OnlySelectedSettingsChange ==
    /\ \A k \in DOMAIN label_config \ {"variable_settings"} :
          label_config'[k] = label_config[k]
    /\ DOMAIN label_config'.variable_settings \ SelectedSet
           = DOMAIN label_config.variable_settings \ SelectedSet
    /\ \A v \in DOMAIN label_config.variable_settings \ SelectedSet :
          label_config'.variable_settings[v] = label_config.variable_settings[v]

\* C27: starting from sizes in [8,24], after any sequence of Increase All
\* Fonts and Decrease All Fonts every selected variable's font_size is in
\* [8,24]; an action moves it by 2, clamped at the limit, and leaves the
\* settings of unselected variables and every other configuration key alone.
C27_FontButtonsClamped ==
    /\ [](\A v \in SelectedSet : FontSizeOf(label_config, v) \in 8..24)
    /\ [][increase_all_fonts =>
            /\ \A v \in SelectedSet :
                  FontSizeOf(label_config', v)
                      = Min(24, FontSizeOf(label_config, v) + 2)
            /\ OnlySelectedSettingsChange]_vars
    /\ [][decrease_all_fonts =>
            /\ \A v \in SelectedSet :
                  FontSizeOf(label_config', v)
                      = Max(8, FontSizeOf(label_config, v) - 2)
            /\ OnlySelectedSettingsChange]_vars

\* both selected variables were clamped at the upper limit, one of them
\* from 23, the unselected variable still has its own settings, and the
\* preview shows the new sizes
C27_Witness ==
    /\ label_config.selected_variables = <<Price, SKU>>
    /\ FontSizeOf(label_config, SKU) = 24
    /\ FontSizeOf(label_config, Price) = 24
    /\ FontSizeOf(label_config, Code) = 16
    /\ Previewed
    /\ \A i \in DOMAIN preview.lines :
          preview.lines[i].font_size = 24 * scale_factor

(***************************************************************************)
(* The pages of a session in any order: upload, configure, preview and     *)
(* generate, each with the branch that warns and returns.                  *)
(***************************************************************************)
\* upload_data_page (label.py:161-188): the table read from the file
\* replaces uploaded_data; the configuration is left as it is
upload_data_page(df) ==
    /\ uploaded_data # df
    /\ uploaded_data' = df
    /\ UNCHANGED <<label_config, generated_labels, BARCODE_AVAILABLE,
                   font_kind, glyph, preview, batch, notice, app_vars>>

\* the st.warning of a page whose checks fail (label.py:754-760, 966-972)
incomplete_warning ==
    IF uploaded_data = None THEN "Upload data first"
    ELSE "Configure variables first"

\* the preview page opened while a check fails: it warns and returns
\* (label.py:754-760)
preview_design_page_incomplete ==
    /\ uploaded_data = None \/ label_config.selected_variables = <<>>
    /\ notice' = [notice EXCEPT !.preview = incomplete_warning]
    /\ UNCHANGED <<uploaded_data, label_config, generated_labels,
                   BARCODE_AVAILABLE, font_kind, glyph, preview, batch,
                   app_vars>>

\* the generate page opened while a check fails: it warns and returns
\* (label.py:966-972)
generate_labels_page_incomplete ==
    /\ uploaded_data = None \/ label_config.selected_variables = <<>>
    /\ notice' = [notice EXCEPT !.generate = incomplete_warning]
    /\ UNCHANGED <<uploaded_data, label_config, generated_labels,
                   BARCODE_AVAILABLE, font_kind, glyph, preview, batch,
                   app_vars>>

UploadRowsTried ==
    {[c \in {SKU, Code} |->
         IF c = SKU THEN StrVal(<<"A", "1">>) ELSE cell] :
     cell \in {NaN, StrVal(<<"1", "2">>)}}

UploadsTried == {DataFrame(rows) : rows \in SeqsOf(UploadRowsTried, 0, 2)}

Upload == \E df \in UploadsTried : upload_data_page(df)

GenerateRangeOfUpload == uploaded_data # None /\ GenerateRange

NextSession ==
    \/ Upload
    \/ SelectionChanged
    \/ MoveUp
    \/ MoveDown
    \/ preview_design_page
    \/ preview_design_page_incomplete
    \/ generate_labels_page_incomplete
    \/ GenerateAll
    \/ GenerateRangeOfUpload

(***************************************************************************)
(* SpecSession: a new session (initialize_session_state), tables of up to  *)
(* two rows with the columns SKU and Code.                                 *)
(***************************************************************************)
InitSession ==
    /\ uploaded_data = None
    /\ label_config = initial_label_config
    /\ BARCODE_AVAILABLE \in BOOLEAN
    /\ font_kind = "truetype"
    /\ glyph = [c \in {"narrow", "wide"} |-> IF c = "narrow" THEN 4 ELSE 8]
    /\ Fresh

SpecSession == InitSession /\ [][NextSession]_vars

\* ---------------------------------------------------------------------------
\* C28  rendering only with a complete configuration
\* ---------------------------------------------------------------------------

ConfigurationComplete ==
    uploaded_data # None /\ label_config.selected_variables # <<>>

\* C28: whatever the order in which the pages are opened, a step renders a
\* preview or generates a batch only when data is uploaded and a variable
\* is selected; a preview or generate page opened without that shows its
\* warning and leaves preview, batch and history as they were.
C28_RenderOnlyWhenConfigured ==
    /\ [][RenderStep => ConfigurationComplete]_vars
    /\ [][(~ConfigurationComplete /\ notice' # notice) =>
            /\ \E page \in DOMAIN notice :
                  notice'[page] \in {"Upload data first",
                                     "Configure variables first"}
            /\ UNCHANGED <<preview, batch, generated_labels>>]_vars

\* after a preview and a batch the selection was cleared, and both pages
\* were opened again and warned
C28_Witness ==
    /\ preview # None
    /\ batch # None
    /\ label_config.selected_variables = <<>>
    /\ notice.preview = "Configure variables first"
    /\ notice.generate = "Configure variables first"

(***************************************************************************)
(* SpecStyle: one row, two text fields and a barcode field, every          *)
(* assignment of style, font size and new_line to the text fields.         *)
(***************************************************************************)
StyleSettings ==
    {[font_size |-> f, style |-> s, new_line |-> n] :
        f \in {8, 24}, s \in {"Normal", "Bold"}, n \in BOOLEAN}

InitStyle ==
    /\ uploaded_data =
           DataFrame(<<[c \in {SKU, Price, Code} |->
                           IF c = SKU THEN StrVal(<<"A", "1">>)
                           ELSE IF c = Code THEN StrVal(<<"1", "2">>)
                           ELSE StrVal(<<"W", "i", "d", "g", "e", "t", " ",
                                         "A", "l", "p", "h", "a", ",", " ",
                                         "l", "a", "r", "g", "e">>)]>>)
    /\ \E settings \in [{SKU, Price} -> StyleSettings], dim \in GeomDims :
          label_config = Config(<<SKU, Price, Code>>, <<SKU, Price, Code>>,
                                settings, Code, default_barcode_settings,
                                dim[1], dim[2])
    /\ BARCODE_AVAILABLE \in BOOLEAN
    /\ font_kind = "truetype"
    /\ glyph = [c \in {"narrow", "wide"} |-> IF c = "narrow" THEN 4 ELSE 8]
    /\ Fresh

SpecStyle == InitStyle /\ [][Next]_vars

\* ---------------------------------------------------------------------------
\* C29  the style of a field does not reach the render
\* ---------------------------------------------------------------------------

\* the configuration with the styles of its stored entries replaced
WithStyles(config, styles) ==
    [config EXCEPT
        !.variable_settings =
            [v \in DOMAIN config.variable_settings |->
                [config.variable_settings[v] EXCEPT !.style = styles[v]]]]

\* C29: the render of the first row under the configuration equals its
\* render under every configuration that differs from it only in the style
\* (Normal or Bold) of fields: same lines, fonts, positions and output.
C29_StyleIgnored ==
    preview # None =>
        \A styles \in [DOMAIN label_config.variable_settings ->
                          {"Normal", "Bold"}] :
            preview = preview_label(uploaded_data,
                                    WithStyles(label_config, styles))

\* a label with text lines was rendered with one field Bold and one Normal
C29_Witness ==
    /\ Previewed
    /\ preview.lines # <<>>
    /\ label_config.variable_settings[SKU].style = "Bold"
    /\ label_config.variable_settings[Price].style = "Normal"

\* ---------------------------------------------------------------------------
\* C30  the bars of the fallback barcode stay inside its rectangle
\* ---------------------------------------------------------------------------

\* C30: for every canvas width in [200,800], barcode height in [20,120] and
\* non-empty value, every bar the fallback barcode draws lies inside the
\* bordered rectangle: left and right x within [x, x + width], top and
\* bottom y within [y, y + height], and the bar has a positive height.
C30_BarsInsideRectangle ==
    PreviewedVisualBarcode =>
        \A k \in DOMAIN preview.barcode.bars :
            LET bar == preview.barcode.bars[k]
                box == preview.barcode
            IN  /\ box.x <= bar.x0
                /\ bar.x0 <= bar.x1
                /\ bar.x1 <= box.x + box.width
                /\ box.y <= bar.y0
                /\ bar.y0 < bar.y1
                /\ bar.y1 <= box.y + box.height

\* the 60 bar positions of a long value in the narrowest box with the
\* lowest barcode, and a bar of the lowest kind (height less 18) among them
C30_Witness ==
    /\ PreviewedVisualBarcode
    /\ preview.size[1] = 200
    /\ preview.barcode.height = 20 * scale_factor
    /\ 4 * Len(BarcodeValue) > 60
    /\ \E k \in DOMAIN preview.barcode.bars :
          /\ preview.barcode.bars[k].i = 59
          /\ preview.barcode.bars[k].x1 > preview.barcode.x + 15 + 59 * 3
    /\ \E k \in DOMAIN preview.barcode.bars :
          preview.barcode.bars[k].y1 - preview.barcode.bars[k].y0
              = preview.barcode.height - 18

====
